---- MODULE Spec2Model ----
(***************************************************************************)
(* cumulus-ecs-task: a runner that installs a Lambda function's code and   *)
(* invokes it from a Step Functions activity loop or from an SQS loop.     *)
(* The model follows index.js: one action per resumption of an awaited     *)
(* operation (Node runs each continuation to its next await atomically),   *)
(* plus the heartbeat timer callbacks and the SIGTERM signal.              *)
(***************************************************************************)
EXTENDS Integers, Sequences, FiniteSets, Bags, TLC

(***************************************************************************)
(* Bounds of the model.                                                    *)
(***************************************************************************)
MaxIterations == 2
MaxHeartbeats == 2
MaxMessages == 2
MaxSigterms == 1
MaxLayers == 1
MaxTime == 4
MaxLatency == 2

\* the retries p-retry makes by default, and the chunks a download attempt
\* that fails may have written before
Retries == 10
PartialWrites == {0, 1}

(***************************************************************************)
(* JavaScript values.  Every value has the same record shape so that any   *)
(* two of them can be compared: t is the type, s the string content, m the *)
(* members of an object as a sequence of <<key, value>> pairs.             *)
(***************************************************************************)
Undefined == "<undefined>"

JUndefined == [t |-> "undefined", s |-> "", m |-> <<>>]
JNull == [t |-> "null", s |-> "", m |-> <<>>]
JStr(s) == [t |-> "string", s |-> s, m |-> <<>>]
JObj(m) == [t |-> "object", s |-> "", m |-> m]

\* JavaScript truthiness of a string-or-undefined field
Truthy(x) == x # Undefined /\ x # ""

(***************************************************************************)
(* JSON text is a sequence of lexical tokens.  NoText stands for the       *)
(* absence of a text (undefined), which is what JSON.stringify(undefined)  *)
(* yields.                                                                 *)
(***************************************************************************)
Punct(c) == [k |-> "punct", v |-> c]
StrTok(s) == [k |-> "string", v |-> s]
Lit(l) == [k |-> "literal", v |-> l]
NoText == <<>>

\* JSON.stringify of a value that is not an object
StringifyAtom(v) ==
  CASE v.t = "string" -> <<StrTok(v.s)>>
    [] v.t = "null" -> <<Lit("null")>>
    [] OTHER -> NoText

RECURSIVE StringifyMembers(_, _)
\* the members of an object, comma separated; a member whose value is
\* undefined is left out, as JSON.stringify does
StringifyMembers(m, first) ==
  IF m = <<>> THEN <<>>
  ELSE LET key == Head(m)[1]
           val == Head(m)[2]
           txt == IF val.t = "object"
                  THEN <<Punct("{")>> \o StringifyMembers(val.m, TRUE) \o <<Punct("}")>>
                  ELSE StringifyAtom(val)
       IN IF txt = NoText
          THEN StringifyMembers(Tail(m), first)
          ELSE (IF first THEN <<>> ELSE <<Punct(",")>>)
               \o <<StrTok(key), Punct(":")>> \o txt
               \o StringifyMembers(Tail(m), FALSE)

\* JSON.stringify(v)
Stringify(v) ==
  IF v.t = "object"
  THEN <<Punct("{")>> \o StringifyMembers(v.m, TRUE) \o <<Punct("}")>>
  ELSE StringifyAtom(v)

(***************************************************************************)
(* JSON.parse: a recursive-descent parser over the tokens.  A parse result *)
(* is [ok, val, rest]; ok = FALSE is the SyntaxError JSON.parse throws.    *)
(***************************************************************************)
ParseFail == [ok |-> FALSE, val |-> JUndefined, rest |-> <<>>]

RECURSIVE ParseValue(_)
RECURSIVE ParseMembers(_, _)

ParseMembers(toks, acc) ==
  \* toks starts at a member: "key" : value, then "," or "}"
  IF Len(toks) < 3 \/ toks[1].k # "string" \/ toks[2] # Punct(":")
  THEN ParseFail
  ELSE LET r == ParseValue(SubSeq(toks, 3, Len(toks)))
       IN IF ~r.ok \/ r.rest = <<>> THEN ParseFail
          ELSE LET acc2 == Append(acc, <<toks[1].v, r.val>>)
               IN IF Head(r.rest) = Punct("}")
                  THEN [ok |-> TRUE, val |-> JObj(acc2), rest |-> Tail(r.rest)]
                  ELSE IF Head(r.rest) = Punct(",")
                       THEN ParseMembers(Tail(r.rest), acc2)
                       ELSE ParseFail

ParseValue(toks) ==
  IF toks = <<>> THEN ParseFail
  ELSE LET h == Head(toks)
       IN CASE h.k = "string" -> [ok |-> TRUE, val |-> JStr(h.v), rest |-> Tail(toks)]
            [] h = Lit("null") -> [ok |-> TRUE, val |-> JNull, rest |-> Tail(toks)]
            [] h = Punct("{") ->
                 IF Len(toks) >= 2 /\ toks[2] = Punct("}")
                 THEN [ok |-> TRUE, val |-> JObj(<<>>), rest |-> SubSeq(toks, 3, Len(toks))]
                 ELSE ParseMembers(Tail(toks), <<>>)
            [] OTHER -> ParseFail

\* JSON.parse(text): ok only when the whole text is one value
Parse(text) ==
  LET r == ParseValue(text)
  IN IF r.ok /\ r.rest = <<>> THEN r ELSE ParseFail

(***************************************************************************)
(* Values thrown by the handler or by an SDK call: a thrown value has a    *)
(* type and, when it is an object, the name and message properties that    *)
(* sendTaskFailure reads and the code property that downloadFile reads.    *)
(***************************************************************************)
ErrObj(n, msg) == [t |-> "object", name |-> n, message |-> msg, code |-> Undefined]
ThrownString == [t |-> "string", name |-> Undefined, message |-> Undefined, code |-> Undefined]
ThrownNull == [t |-> "null", name |-> Undefined, message |-> Undefined, code |-> Undefined]
NoError == [t |-> "undefined", name |-> Undefined, message |-> Undefined, code |-> Undefined]
\* reading a property of null or undefined throws this
TypeErrorObj == ErrObj("TypeError", "Cannot read properties of null")

\* errors an AWS SDK send() rejects with
SdkErrors == {ErrObj("TaskTimedOut", "Task Timed Out")}

\* what options.heartbeat and options.runForever can be (heartbeat 0 stands
\* for an absent, null or zero option: all are falsy)
HeartbeatOptions == {0, 1000}
RunForeverOptions == {Undefined, "true", "false"}
Modes == {"activity", "sqs", "task"}

\* task tokens and receipt handles are unique per work item
TokenName(n) == "token-" \o ToString(n)
ReceiptName(n) == "receipt-" \o ToString(n)

\* payloads of the tests
HiBye == JObj(<<<<"hi", JStr("bye")>>>>)
\* what options.lambdaInput can be for runTask: typeof null is 'object' too
LambdaInputs == {HiBye, JNull}
\* a truncated text, which JSON.parse rejects
BadJson == <<Punct("{"), StrTok("hi")>>

(***************************************************************************)
(* Strings.  A JavaScript string is a TLA+ string; the operations below    *)
(* are the ones index.js applies to the Lambda id, the Handler setting and *)
(* the directories.                                                        *)
(***************************************************************************)
\* s.startsWith(prefix)
StartsWith(s, prefix) ==
  Len(s) >= Len(prefix) /\ SubSeq(s, 1, Len(prefix)) = prefix

\* s.endsWith(suffix)
EndsWith(s, suffix) ==
  Len(s) >= Len(suffix) /\ SubSeq(s, Len(s) - Len(suffix) + 1, Len(s)) = suffix

RECURSIVE SplitFrom(_, _, _)
\* the pieces of s cut at every sep, acc being the piece collected so far
SplitFrom(s, sep, acc) ==
  IF s = "" THEN <<acc>>
  ELSE IF SubSeq(s, 1, 1) = sep
       THEN <<acc>> \o SplitFrom(SubSeq(s, 2, Len(s)), sep, "")
       ELSE SplitFrom(SubSeq(s, 2, Len(s)), sep, acc \o SubSeq(s, 1, 1))

\* s.split(sep), sep being one character
Split(s, sep) == SplitFrom(s, sep, "")

\* a[i] of a JavaScript array: indices start at 0, and reading beyond the
\* end yields undefined
At(a, i) == IF i + 1 \in DOMAIN a THEN a[i + 1] ELSE Undefined

\* `${x}` in a template literal
Template(x) == IF x = Undefined THEN "undefined" ELSE x

(***************************************************************************)
(* Option values.  A number is kept as its integer part (s) and, when it   *)
(* has one, its fraction (a member of m).                                  *)
(***************************************************************************)
JNum(int, frac) ==
  [t |-> "number", s |-> ToString(int),
   m |-> IF frac = 0 THEN <<>> ELSE <<<<"fraction", JStr(ToString(frac))>>>>]

\* the truthiness of a value
JTruthy(v) ==
  CASE v.t = "string" -> v.s # ""
    [] v.t = "number" -> ~(v.s = "0" /\ v.m = <<>>)
    [] v.t = "object" -> TRUE
    [] OTHER -> FALSE

\* typeof v
typeof(v) == IF v.t = "null" THEN "object" ELSE v.t

\* Number.isInteger(v)
NumberIsInteger(v) == v.t = "number" /\ v.m = <<>>

\* v && typeof v === 'string', the test of the assertions
IsRequiredString(v) == JTruthy(v) /\ typeof(v) = "string"

VARIABLES
  mode,             \* which service function runs
  options,          \* the options object it was called with
  runForever,       \* the constant of the same name
  taskResult,       \* what the promise of runTask settled with
  pc,               \* where the service function is suspended
  sigTermReceived,  \* the flag of the same name
  sigtermHandler,   \* TRUE once process.on('SIGTERM') has run
  activity,         \* the loop variable of runServiceFromActivity
  counter,          \* the loop counter
  calls,            \* the AWS calls the service function issued and awaited,
                    \* in order, with their results
  awaiting,         \* index in calls of the call the service function awaits
  timers,           \* the set-interval-async timers created so far, each with
                    \* the number of SendTaskHeartbeat calls it has issued
  heartbeat,        \* handlePollResponse's timer handle (0: undefined)
  invocations,      \* every handler invocation so far, with its outcome
  log,              \* what was logged: a bag of entries
  jobs,             \* the per-message promises of runServiceFromSQS, each
                    \* with the DeleteMessage call it has issued
  unhandled,        \* number of promise rejections nobody handles
  entry,            \* how the program was started: "cli" is bin/service.js,
                    \* "api" a call of the exported function
  cliInput,         \* the text given as --lambda-input (NoText: not given)
  argv,             \* the options object the service function is called with
  lambdaFn,         \* what GetFunction answered
  downloads,        \* the downloadFile calls so far, each with its attempts
  unzips,           \* the unzip commands started, each with its outcome
  disk,             \* the files on disk: path -> content
  env,              \* process.env.CUMULUS_MESSAGE_ADAPTER_DIR
  handler,          \* what installLambdaFunction returned
  exitCode,         \* the exit code of the process (Undefined: running)
  stderr,           \* what console.error printed, in order
  now               \* the clock, in ticks (Untimed: time is not followed)

\* the variables of the start-up: command line, installation, process exit
startVars == <<entry, cliInput, argv, lambdaFn, downloads, unzips, disk, env, handler,
               exitCode, stderr>>

vars == <<mode, options, runForever, taskResult, pc, sigTermReceived, sigtermHandler, activity,
          counter, calls, awaiting, timers, heartbeat, invocations, log, jobs, unhandled,
          startVars, now>>

NoActivity == [defined |-> FALSE, event |-> JUndefined, token |-> Undefined]

Call(cmd) == [cmd |-> cmd, taskToken |-> Undefined, input |-> NoText,
              output |-> NoText, error |-> Undefined, cause |-> Undefined,
              result |-> "pending"]

LogEntry(level, msg) == [level |-> level, msg |-> msg]

\* the log after log.info(msg) or log.error(msg, err)
Logged(logNow, level, msg) == logNow (+) SetToBag({LogEntry(level, msg)})

\* const runForever = isBoolean(options.runForever) ? options.runForever : true
isBoolean(x) == x \in {"true", "false"}
RunForeverOf(option) == IF isBoolean(option) THEN option = "true" ELSE TRUE

\* the process is alive: it was neither killed by a signal nor crashed
Alive == pc \notin {"killed", "crashed"}

\* the SIGTERM signals handled so far
SigtermCount ==
  CopiesIn(LogEntry("info", "Received SIGTERM, will stop polling for new work"), log)

RECURSIVE SumSent(_)
SumSent(ts) == IF ts = <<>> THEN 0 ELSE Head(ts).sent + SumSent(Tail(ts))

\* the SendTaskHeartbeat calls issued so far
HeartbeatCount == SumSent(timers)

\* the promise of runTask: pending, resolved with a value, or rejected with
\* an error
NoResult == [value |-> JUndefined, error |-> NoError]

(***************************************************************************)
(* The start-up state: nothing was asked of AWS, nothing was downloaded,   *)
(* the process runs.                                                       *)
(***************************************************************************)
NoArgv ==
  [given |-> FALSE, lambdaArn |-> JUndefined, activityArn |-> JUndefined,
   sqsUrl |-> JUndefined, lambdaInput |-> JUndefined, taskDirectory |-> JUndefined,
   workDirectory |-> JUndefined, layersDirectory |-> JUndefined, heartbeat |-> JUndefined]
NoFunction == [Location |-> Undefined, package |-> <<>>, Handler |-> Undefined, Layers |-> <<>>]
NoHandler == [returned |-> FALSE, callable |-> FALSE, cmaDir |-> Undefined]
EmptyDisk == [p \in {} |-> <<>>]
\* const handler = await installLambdaFunction(...): the function the
\* module exports
Installed == [returned |-> TRUE, callable |-> TRUE, cmaDir |-> Undefined]
\* exitCode while the process runs
Running == -1
\* the clock of a run whose time is not followed
Untimed == -1

Init ==
  /\ mode \in Modes
  /\ options \in [heartbeat : HeartbeatOptions, lambdaInput : LambdaInputs \cup {JUndefined}]
  /\ runForever \in {RunForeverOf(option) : option \in RunForeverOptions}
  \* only runServiceFromActivity reads options.heartbeat, only runTask reads
  \* options.lambdaInput, and runTask has no runForever
  /\ mode # "activity" => options.heartbeat = 0
  /\ (mode = "task") = (options.lambdaInput # JUndefined)
  /\ mode = "task" => runForever
  /\ taskResult = NoResult
  /\ pc = "install"
  /\ sigTermReceived = FALSE
  /\ sigtermHandler = FALSE
  /\ activity = NoActivity
  /\ counter = 0
  /\ calls = <<>>
  /\ awaiting = 0
  /\ timers = <<>>
  /\ heartbeat = 0
  /\ invocations = <<>>
  /\ log = Logged(EmptyBag, "info", "Downloading the Lambda function")
  /\ jobs = <<>>
  /\ unhandled = 0
  \* the loop is modelled from a start-up that went well
  /\ entry = "api"
  /\ cliInput = NoText
  /\ argv = NoArgv
  /\ lambdaFn = NoFunction
  /\ downloads = <<>>
  /\ unzips = <<>>
  /\ disk = EmptyDisk
  /\ env = Undefined
  /\ handler = NoHandler
  /\ exitCode = Running
  /\ stderr = <<>>
  /\ now = Untimed

(***************************************************************************)
(* The top of the loop body: log, then issue the poll and await it.        *)
(***************************************************************************)
StartIteration(callsNow, logNow) ==
  /\ calls' = Append(callsNow,
                Call(IF mode = "activity" THEN "GetActivityTask" ELSE "ReceiveMessage"))
  /\ awaiting' = Len(callsNow) + 1
  /\ pc' = IF mode = "activity" THEN "poll" ELSE "receive"
  /\ log' = Logged(logNow, "info", "Getting tasks")
  /\ activity' = NoActivity

(***************************************************************************)
(* The bottom of the loop body: counter += 1, then the while condition.   *)
(* The loop goes round, or the service function logs 'Exiting' and         *)
(* resolves.                                                               *)
(***************************************************************************)
EndIteration(callsNow, logNow) ==
  /\ counter' = counter + 1
  /\ IF runForever /\ ~sigTermReceived
     THEN /\ counter < MaxIterations
          /\ StartIteration(callsNow, logNow)
     ELSE /\ calls' = callsNow
          /\ awaiting' = 0
          /\ pc' = "resolved"
          /\ log' = Logged(logNow, "info", "Exiting")
          /\ activity' = NoActivity

Settle(callsNow, idx, res) == [callsNow EXCEPT ![idx].result = res]

(***************************************************************************)
(* installLambdaFunction settles.  On success the SIGTERM handler is       *)
(* registered and the first iteration starts; on failure the service       *)
(* function rejects.                                                       *)
(***************************************************************************)
InstallResolves ==
  /\ mode # "task"
  /\ pc = "install"
  /\ handler' = Installed
  /\ sigTermReceived' = FALSE
  /\ sigtermHandler' = TRUE
  /\ counter' = 1
  /\ StartIteration(calls, log)
  /\ UNCHANGED <<now, entry, cliInput, argv, lambdaFn, downloads, unzips, disk, env, exitCode,
                 stderr, mode, options, runForever, taskResult, timers, heartbeat, invocations,
                 jobs, unhandled>>

\* InstallRejects with the failure of the installation swallowed: the loop
\* starts without a handler
InstallRejects_swallowed ==
  /\ mode # "task"
  /\ pc = "install"
  /\ sigTermReceived' = FALSE
  /\ sigtermHandler' = TRUE
  /\ counter' = 1
  /\ StartIteration(calls, log)
  /\ UNCHANGED <<now, startVars, mode, options, runForever, taskResult, timers, heartbeat,
                 invocations, jobs, unhandled>>

InstallRejects ==
  /\ mode # "task"
  /\ pc = "install"
  /\ pc' = "rejected"
  /\ UNCHANGED <<now, startVars, mode, options, runForever, taskResult, sigTermReceived, sigtermHandler, activity, counter,
                 calls, awaiting, timers, heartbeat, invocations, log, jobs, unhandled>>

\* Sigterm with a handler that ends the service at once
Sigterm_abandons ==
  /\ Alive
  /\ SigtermCount < MaxSigterms
  /\ sigtermHandler
  /\ sigTermReceived' = TRUE
  /\ log' = Logged(log, "info", "Received SIGTERM, will stop polling for new work")
  /\ pc' = "resolved"
  /\ UNCHANGED <<now, startVars, mode, options, runForever, taskResult, sigtermHandler, activity, counter, calls, awaiting,
                 timers, heartbeat, invocations, jobs, unhandled>>

(***************************************************************************)
(* SIGTERM is delivered.  With the handler registered it logs and sets the *)
(* flag; before that the signal's default disposition ends the process.    *)
(***************************************************************************)
Sigterm ==
  /\ Alive
  /\ SigtermCount < MaxSigterms
  /\ IF sigtermHandler
     THEN /\ sigTermReceived' = TRUE
          /\ log' = Logged(log, "info", "Received SIGTERM, will stop polling for new work")
          /\ pc' = pc
     ELSE /\ pc' = "killed"
          /\ UNCHANGED <<sigTermReceived, log>>
  /\ UNCHANGED <<now, startVars, mode, options, runForever, taskResult, sigtermHandler, activity, counter, calls, awaiting,
                 timers, heartbeat, invocations, jobs, unhandled>>


(***************************************************************************)
(* Activity mode.                                                          *)
(***************************************************************************)

\* what GetActivityTask can answer in iteration n
PollResponses(n) ==
  [defined : {TRUE}, taskToken : {Undefined, ""}, input : {Stringify(HiBye)}]
  \cup [defined : {TRUE}, taskToken : {TokenName(n)},
        input : {NoText, Stringify(HiBye), BadJson}]

\* IsWork without the test of the token
IsWork_anyToken(data) == data.defined /\ data.input # NoText

\* the test of getActivityTask: data && data.taskToken && data.taskToken.length && data.input
IsWork(data) == data.defined /\ Truthy(data.taskToken) /\ data.input # NoText

\* what the handler can return for an event, and what it can throw
HandlerReturnValues(event) == {event, JUndefined}
HandlerThrownValues(event) ==
  {ErrObj("Error", "it failed"), ThrownString, ThrownNull}

\* the length of one tick of the clock in milliseconds, and the interval of
\* setIntervalAsync(handler, heartbeatInterval) in ticks
TickMillis == 1000
Interval == options.heartbeat \div TickMillis

\* start and finish are the times of the call and of its end; beats is the
\* number of heartbeats its timer had sent at the finish, and slow tells
\* that one of them took longer than the interval
Invocation(token, event) ==
  [taskToken |-> token, event |-> event, status |-> "pending",
   value |-> JUndefined, error |-> NoError,
   start |-> now, finish |-> Untimed, beats |-> 0, slow |-> FALSE]

\* setIntervalAsync schedules the first run one interval from now; due is
\* the time of the scheduled run, started the time the run in progress began
Timer(token) ==
  [taskToken |-> token, stopped |-> FALSE, busy |-> FALSE, sent |-> 0,
   due |-> IF now = Untimed THEN Untimed ELSE now + Interval,
   started |-> Untimed, slow |-> FALSE]

\* the run of timer t that is ending now took longer than the interval
TookLonger(t) == now # Untimed /\ t.busy /\ now - t.started > Interval

\* set-interval-async (dynamic): the next run is scheduled when the handler
\* has ended, interval - executionTime from now, or at once when the run
\* took longer; a stopped timer schedules nothing
NextDue(t) ==
  IF now = Untimed \/ t.stopped THEN Untimed
  ELSE IF Interval > now - t.started THEN t.started + Interval
  ELSE now

\* the invocation that ends now, with what its timer has done meanwhile
Finished(inv) ==
  IF now = Untimed \/ heartbeat = 0 THEN inv
  ELSE [inv EXCEPT !.finish = now,
                   !.beats = timers[heartbeat].sent,
                   !.slow = timers[heartbeat].slow \/ TookLonger(timers[heartbeat])]

\* new SendTaskSuccessCommand({ taskToken, output })
SendTaskSuccessCall(token, output) ==
  [Call("SendTaskSuccess") EXCEPT !.taskToken = token, !.output = output]

\* new SendTaskFailureCommand({ taskToken, error: taskError.name, cause: taskError.message })
SendTaskFailureCall(token, taskError) ==
  [Call("SendTaskFailure") EXCEPT !.taskToken = token,
                                  !.error = taskError.name,
                                  !.cause = taskError.message]

\* sendTaskFailure throws before it sends anything when taskError has no properties
SendTaskFailureThrows(taskError) == taskError.t \in {"null", "undefined"}

\* handlePollResponse after the heartbeat is cleared: await sendTaskSuccess(...)
IssueSuccess(callsNow, output) ==
  /\ calls' = Append(callsNow, SendTaskSuccessCall(activity.token, Stringify(output)))
  /\ awaiting' = Len(callsNow) + 1
  /\ pc' = "success"

\* the catch of runServiceFromActivity, reached with a work item in hand:
\* log, then await sendTaskFailure(activity.token, e)
OuterCatch(callsNow, e) ==
  /\ log' = Logged(log, "error", "Task failed. trying again")
  /\ calls' = Append(callsNow, SendTaskFailureCall(activity.token, e))
  /\ awaiting' = Len(callsNow) + 1
  /\ pc' = "failure2"

\* the catch of handlePollResponse: await sendTaskFailure(taskToken, err)
InnerCatch(callsNow, err) ==
  IF SendTaskFailureThrows(err)
  THEN OuterCatch(callsNow, TypeErrorObj)
  ELSE /\ calls' = Append(callsNow, SendTaskFailureCall(activity.token, err))
       /\ awaiting' = Len(callsNow) + 1
       /\ pc' = "failure"
       /\ log' = log

\* PollResolves with a handlePollResponse that starts the heartbeat whatever
\* the interval is
PollResolves_alwaysTicks(data) ==
  /\ pc = "poll"
  /\ LET answered == [calls EXCEPT ![awaiting].result = "ok",
                                   ![awaiting].taskToken = data.taskToken,
                                   ![awaiting].input = data.input]
         parsed == Parse(data.input)
     IN IF ~IsWork(data)
        THEN /\ EndIteration(answered, Logged(log, "info", "No tasks in the activity queue"))
             /\ UNCHANGED <<timers, heartbeat, invocations>>
        ELSE IF ~parsed.ok
        THEN /\ EndIteration(answered, Logged(log, "error", "Task failed. trying again"))
             /\ UNCHANGED <<timers, heartbeat, invocations>>
        ELSE /\ activity' = [defined |-> TRUE, event |-> parsed.val, token |-> data.taskToken]
             /\ timers' = Append(timers, Timer(data.taskToken))
             /\ heartbeat' = Len(timers) + 1
             /\ invocations' = Append(invocations, Invocation(data.taskToken, parsed.val))
             /\ calls' = answered
             /\ awaiting' = 0
             /\ pc' = "invoke"
             /\ UNCHANGED <<counter, log>>
  /\ UNCHANGED <<now, startVars, mode, options, runForever, taskResult, sigTermReceived, sigtermHandler, jobs, unhandled>>

\* PollResolves with handlePollResponse not awaited: the loop goes round
\* while the handler runs
PollResolves_detached(data) ==
  /\ pc = "poll"
  /\ LET answered == [calls EXCEPT ![awaiting].result = "ok",
                                   ![awaiting].taskToken = data.taskToken,
                                   ![awaiting].input = data.input]
         parsed == Parse(data.input)
     IN IF ~IsWork(data)
        THEN /\ EndIteration(answered, Logged(log, "info", "No tasks in the activity queue"))
             /\ UNCHANGED <<timers, heartbeat, invocations>>
        ELSE IF ~parsed.ok
        THEN /\ EndIteration(answered, Logged(log, "error", "Task failed. trying again"))
             /\ UNCHANGED <<timers, heartbeat, invocations>>
        ELSE /\ invocations' = Append(invocations, Invocation(data.taskToken, parsed.val))
             /\ EndIteration(answered, log)
             /\ UNCHANGED <<timers, heartbeat>>
  /\ UNCHANGED <<now, startVars, mode, options, runForever, taskResult, sigTermReceived, sigtermHandler, jobs, unhandled>>

\* PollResolves with a getActivityTask that hands the token to the loop
\* before it parses the input: the catch of the loop reports the failure
PollResolves_reportsParseError(data) ==
  /\ pc = "poll"
  /\ LET answered == [calls EXCEPT ![awaiting].result = "ok",
                                   ![awaiting].taskToken = data.taskToken,
                                   ![awaiting].input = data.input]
         parsed == Parse(data.input)
     IN IF ~IsWork(data)
        THEN /\ EndIteration(answered, Logged(log, "info", "No tasks in the activity queue"))
             /\ UNCHANGED <<timers, heartbeat, invocations>>
        ELSE IF ~parsed.ok
        THEN /\ activity' = [defined |-> TRUE, event |-> JUndefined, token |-> data.taskToken]
             /\ log' = Logged(log, "error", "Task failed. trying again")
             /\ calls' = Append(answered,
                           SendTaskFailureCall(data.taskToken,
                                               ErrObj("SyntaxError", "Unexpected end of JSON input")))
             /\ awaiting' = Len(answered) + 1
             /\ pc' = "failure2"
             /\ UNCHANGED <<counter, timers, heartbeat, invocations>>
        ELSE /\ activity' = [defined |-> TRUE, event |-> parsed.val, token |-> data.taskToken]
             /\ IF options.heartbeat # 0
                THEN /\ timers' = Append(timers, Timer(data.taskToken))
                     /\ heartbeat' = Len(timers) + 1
                ELSE /\ timers' = timers
                     /\ heartbeat' = 0
             /\ invocations' = Append(invocations, Invocation(data.taskToken, parsed.val))
             /\ calls' = answered
             /\ awaiting' = 0
             /\ pc' = "invoke"
             /\ UNCHANGED <<counter, log>>
  /\ UNCHANGED <<now, startVars, mode, options, runForever, taskResult, sigTermReceived, sigtermHandler, jobs, unhandled>>

(***************************************************************************)
(* GetActivityTask answers.  Without work the iteration ends; with work    *)
(* the input is parsed, the heartbeat is started when an interval is       *)
(* configured, and the handler is invoked.                                 *)
(***************************************************************************)
PollResolves(data) ==
  /\ pc = "poll"
  /\ LET answered == [calls EXCEPT ![awaiting].result = "ok",
                                   ![awaiting].taskToken = data.taskToken,
                                   ![awaiting].input = data.input]
         parsed == Parse(data.input)
     IN IF ~IsWork(data)
        THEN /\ EndIteration(answered, Logged(log, "info", "No tasks in the activity queue"))
             /\ UNCHANGED <<timers, heartbeat, invocations>>
        ELSE IF ~parsed.ok
        THEN /\ EndIteration(answered, Logged(log, "error", "Task failed. trying again"))
             /\ UNCHANGED <<timers, heartbeat, invocations>>
        ELSE /\ activity' = [defined |-> TRUE, event |-> parsed.val, token |-> data.taskToken]
             /\ IF options.heartbeat # 0
                THEN /\ timers' = Append(timers, Timer(data.taskToken))
                     /\ heartbeat' = Len(timers) + 1
                ELSE /\ timers' = timers
                     /\ heartbeat' = 0
             /\ invocations' = Append(invocations, Invocation(data.taskToken, parsed.val))
             /\ calls' = answered
             /\ awaiting' = 0
             /\ pc' = "invoke"
             /\ UNCHANGED <<counter, log>>
  /\ UNCHANGED <<now, startVars, mode, options, runForever, taskResult, sigTermReceived, sigtermHandler, jobs, unhandled>>

\* PollRejects with the poll outside the try: the rejection leaves the loop
PollRejects_uncaught(err) ==
  /\ pc = "poll"
  /\ calls' = Settle(calls, awaiting, "error")
  /\ awaiting' = 0
  /\ pc' = "rejected"
  /\ UNCHANGED <<now, startVars, mode, options, runForever, taskResult, sigTermReceived, sigtermHandler, activity, counter,
                 timers, heartbeat, invocations, log, jobs, unhandled>>

\* PollRejects with a catch that clears the termination flag
PollRejects_resets(err) ==
  /\ pc = "poll"
  /\ sigTermReceived' = FALSE
  /\ EndIteration(Settle(calls, awaiting, "error"),
                  Logged(log, "error", "Task failed. trying again"))
  /\ UNCHANGED <<now, startVars, mode, options, runForever, taskResult, sigtermHandler, timers, heartbeat,
                 invocations, jobs, unhandled>>

\* GetActivityTask fails: the catch logs, there is no activity, the iteration ends
PollRejects(err) ==
  /\ pc = "poll"
  /\ EndIteration(Settle(calls, awaiting, "error"),
                  Logged(log, "error", "Task failed. trying again"))
  /\ UNCHANGED <<now, startVars, mode, options, runForever, taskResult, sigTermReceived, sigtermHandler, timers, heartbeat,
                 invocations, jobs, unhandled>>

\* HandlerResolves with a clearInterval that does not wait for the send in
\* flight
HandlerResolves_noWait(v) ==
  /\ mode = "activity"
  /\ pc = "invoke"
  /\ invocations' = [invocations EXCEPT ![Len(invocations)] =
                         Finished([@ EXCEPT !.status = "returned", !.value = v])]
  /\ IF options.heartbeat # 0
     THEN timers' = [timers EXCEPT ![heartbeat].stopped = TRUE, ![heartbeat].due = Untimed]
     ELSE timers' = timers
  /\ IssueSuccess(calls, v)
  /\ UNCHANGED <<now, startVars, mode, options, runForever, taskResult, sigTermReceived, sigtermHandler, activity, counter,
                 heartbeat, log, jobs, unhandled>>

(***************************************************************************)
(* The handler returns: clear the heartbeat (which waits for a heartbeat   *)
(* in flight), then send the success.                                      *)
(***************************************************************************)
HandlerResolves(v) ==
  /\ mode = "activity"
  /\ pc = "invoke"
  /\ invocations' = [invocations EXCEPT ![Len(invocations)] =
                         Finished([@ EXCEPT !.status = "returned", !.value = v])]
  /\ IF options.heartbeat # 0
     THEN /\ timers' = [timers EXCEPT ![heartbeat].stopped = TRUE, ![heartbeat].due = Untimed]
          /\ IF timers[heartbeat].busy
             THEN /\ pc' = "clear"
                  /\ UNCHANGED <<calls, awaiting>>
             ELSE IssueSuccess(calls, v)
     ELSE /\ timers' = timers
          /\ IssueSuccess(calls, v)
  /\ UNCHANGED <<now, startVars, mode, options, runForever, taskResult, sigTermReceived, sigtermHandler, activity, counter,
                 heartbeat, log, jobs, unhandled>>

\* HandlerRejects with a handlePollResponse that invokes the handler again
\* after it has thrown
HandlerRejects_retries(e) ==
  /\ mode = "activity"
  /\ pc = "invoke"
  /\ invocations' =
       Append([invocations EXCEPT ![Len(invocations)] =
                 Finished([@ EXCEPT !.status = "threw", !.error = e])],
              Invocation(activity.token, activity.event))
  /\ UNCHANGED <<now, startVars, mode, options, runForever, taskResult, pc, sigTermReceived,
                 sigtermHandler, activity, counter, calls, awaiting, timers, heartbeat, log,
                 jobs, unhandled>>

\* The handler throws: the catch of handlePollResponse sends the failure
HandlerRejects(e) ==
  /\ mode = "activity"
  /\ pc = "invoke"
  /\ invocations' = [invocations EXCEPT ![Len(invocations)] =
                         Finished([@ EXCEPT !.status = "threw", !.error = e])]
  /\ InnerCatch(calls, e)
  /\ UNCHANGED <<now, startVars, mode, options, runForever, taskResult, sigTermReceived, sigtermHandler, activity, counter,
                 timers, heartbeat, jobs, unhandled>>

(***************************************************************************)
(* The heartbeat timer.  A tick sends SendTaskHeartbeat; the next tick is  *)
(* scheduled only after the send has settled and the timer is not stopped. *)
(***************************************************************************)
HeartbeatTick(i) ==
  /\ Alive
  /\ i \in DOMAIN timers
  /\ ~timers[i].stopped
  /\ ~timers[i].busy
  /\ HeartbeatCount < MaxHeartbeats
  /\ now # Untimed => timers[i].due = now
  /\ timers' = [timers EXCEPT ![i].busy = TRUE, ![i].sent = @ + 1,
                              ![i].due = Untimed, ![i].started = now]
  /\ UNCHANGED <<now, startVars, mode, options, runForever, taskResult, pc, sigTermReceived, sigtermHandler, activity, counter,
                 calls, awaiting, heartbeat, invocations, log, jobs, unhandled>>

\* HeartbeatSettles with a callback that lets the error of the send through:
\* the timer stops at the first failed heartbeat
HeartbeatSettles_stops(i, ok) ==
  /\ Alive
  /\ i \in DOMAIN timers
  /\ timers[i].busy
  /\ timers' = [timers EXCEPT ![i].busy = FALSE, ![i].stopped = @ \/ ~ok,
                              ![i].due = NextDue(timers[i]), ![i].started = Untimed,
                              ![i].slow = @ \/ TookLonger(timers[i])]
  /\ log' = IF ok THEN Logged(log, "info", "sending heartbeat")
                  ELSE Logged(log, "error", "error sending heartbeat")
  /\ IF pc = "clear" /\ heartbeat = i
     THEN IssueSuccess(calls, invocations[Len(invocations)].value)
     ELSE UNCHANGED <<pc, calls, awaiting>>
  /\ UNCHANGED <<now, startVars, mode, options, runForever, taskResult, sigTermReceived, sigtermHandler, activity, counter,
                 heartbeat, invocations, jobs, unhandled>>

\* HeartbeatSettles with a timer that waits a whole interval after every
\* run (the library's fixed strategy)
HeartbeatSettles_fixed(i, ok) ==
  /\ Alive
  /\ i \in DOMAIN timers
  /\ timers[i].busy
  /\ timers' = [timers EXCEPT ![i].busy = FALSE,
                              ![i].due = IF now = Untimed \/ timers[i].stopped THEN Untimed
                                         ELSE now + Interval,
                              ![i].started = Untimed,
                              ![i].slow = @ \/ TookLonger(timers[i])]
  /\ log' = IF ok THEN Logged(log, "info", "sending heartbeat")
                  ELSE Logged(log, "error", "error sending heartbeat")
  /\ IF pc = "clear" /\ heartbeat = i
     THEN IssueSuccess(calls, invocations[Len(invocations)].value)
     ELSE UNCHANGED <<pc, calls, awaiting>>
  /\ UNCHANGED <<now, startVars, mode, options, runForever, taskResult, sigTermReceived, sigtermHandler, activity, counter,
                 heartbeat, invocations, jobs, unhandled>>

\* the send of a tick settles; a clearIntervalAsync waiting for it goes on
HeartbeatSettles(i, ok) ==
  /\ Alive
  /\ i \in DOMAIN timers
  /\ timers[i].busy
  /\ timers' = [timers EXCEPT ![i].busy = FALSE,
                              ![i].due = NextDue(timers[i]), ![i].started = Untimed,
                              ![i].slow = @ \/ TookLonger(timers[i])]
  /\ log' = IF ok THEN Logged(log, "info", "sending heartbeat")
                  ELSE Logged(log, "error", "error sending heartbeat")
  /\ IF pc = "clear" /\ heartbeat = i
     THEN IssueSuccess(calls, invocations[Len(invocations)].value)
     ELSE UNCHANGED <<pc, calls, awaiting>>
  /\ UNCHANGED <<now, startVars, mode, options, runForever, taskResult, sigTermReceived, sigtermHandler, activity, counter,
                 heartbeat, invocations, jobs, unhandled>>

(***************************************************************************)
(* The reports settle.                                                     *)
(***************************************************************************)
SendTaskSuccessResolves ==
  /\ pc = "success"
  /\ EndIteration(Settle(calls, awaiting, "ok"), log)
  /\ UNCHANGED <<now, startVars, mode, options, runForever, taskResult, sigTermReceived, sigtermHandler, timers, heartbeat,
                 invocations, jobs, unhandled>>

\* sendTaskSuccess rejects inside the try: the catch sends a failure
SendTaskSuccessRejects(err) ==
  /\ pc = "success"
  /\ InnerCatch(Settle(calls, awaiting, "error"), err)
  /\ UNCHANGED <<now, startVars, mode, options, runForever, taskResult, sigTermReceived, sigtermHandler, activity, counter,
                 timers, heartbeat, invocations, jobs, unhandled>>

SendTaskFailureResolves ==
  /\ pc = "failure"
  /\ EndIteration(Settle(calls, awaiting, "ok"), log)
  /\ UNCHANGED <<now, startVars, mode, options, runForever, taskResult, sigTermReceived, sigtermHandler, timers, heartbeat,
                 invocations, jobs, unhandled>>

\* sendTaskFailure rejects in handlePollResponse's catch: handlePollResponse
\* rejects and the catch of the loop sends a failure again
SendTaskFailureRejects(err) ==
  /\ pc = "failure"
  /\ OuterCatch(Settle(calls, awaiting, "error"), err)
  /\ UNCHANGED <<now, startVars, mode, options, runForever, taskResult, sigTermReceived, sigtermHandler, activity, counter,
                 timers, heartbeat, invocations, jobs, unhandled>>

OuterFailureResolves ==
  /\ pc = "failure2"
  /\ EndIteration(Settle(calls, awaiting, "ok"), log)
  /\ UNCHANGED <<now, startVars, mode, options, runForever, taskResult, sigTermReceived, sigtermHandler, timers, heartbeat,
                 invocations, jobs, unhandled>>

\* sendTaskFailure rejects in the catch of the loop: nothing catches it
OuterFailureRejects(err) ==
  /\ pc = "failure2"
  /\ calls' = Settle(calls, awaiting, "error")
  /\ awaiting' = 0
  /\ pc' = "rejected"
  /\ UNCHANGED <<now, startVars, mode, options, runForever, taskResult, sigTermReceived, sigtermHandler, activity, counter,
                 timers, heartbeat, invocations, log, jobs, unhandled>>


(***************************************************************************)
(* Single-task mode: runTask installs the function, invokes the handler    *)
(* once with options.lambdaInput and settles with its outcome.             *)
(***************************************************************************)

\* Logger.error(message, err) reads err.stack first, which throws when err
\* is null or undefined
LoggerErrorThrows(err) == err.t \in {"null", "undefined"}

\* the entry Logger.error writes: the message and the stack when err has a
\* stack, err alone when it has none
ErrorEntry(message, err) ==
  IF err.t = "object" THEN LogEntry("error", message)
  ELSE LogEntry("error", "<the thrown value>")

\* the catch of runTask: log.error('task failed with an error', e); throw e
TaskCatchAfter(e, logNow) ==
  /\ pc' = "rejected"
  /\ IF LoggerErrorThrows(e)
     THEN /\ log' = logNow
          /\ taskResult' = [NoResult EXCEPT !.error = TypeErrorObj]
     ELSE /\ log' = logNow (+) SetToBag({ErrorEntry("task failed with an error", e)})
          /\ taskResult' = [NoResult EXCEPT !.error = e]

TaskCatch(e) == TaskCatchAfter(e, log)

\* installLambdaFunction resolves: the handler is invoked with lambdaInput
TaskInstallResolves ==
  /\ mode = "task"
  /\ pc = "install"
  /\ handler' = Installed
  /\ invocations' = Append(invocations, Invocation(Undefined, options.lambdaInput))
  /\ pc' = "invoke"
  /\ UNCHANGED <<now, entry, cliInput, argv, lambdaFn, downloads, unzips, disk, env, exitCode,
                 stderr, mode, options, runForever, taskResult, sigTermReceived, sigtermHandler,
                 activity, counter, calls, awaiting, timers, heartbeat, log, jobs, unhandled>>

\* installLambdaFunction rejects inside the try of runTask
TaskInstallRejects(err) ==
  /\ mode = "task"
  /\ pc = "install"
  /\ TaskCatch(err)
  /\ UNCHANGED <<now, startVars, mode, options, runForever, sigTermReceived, sigtermHandler, activity, counter,
                 calls, awaiting, timers, heartbeat, invocations, jobs, unhandled>>

\* TaskHandlerResolves with a runTask that drops the output
TaskHandlerResolves_noOutput(v) ==
  /\ mode = "task"
  /\ pc = "invoke"
  /\ invocations' = [invocations EXCEPT ![Len(invocations)].status = "returned",
                                        ![Len(invocations)].value = v]
  /\ log' = Logged(log, "info", "task executed successfully")
  /\ pc' = "resolved"
  /\ taskResult' = NoResult
  /\ UNCHANGED <<now, startVars, mode, options, runForever, sigTermReceived, sigtermHandler, activity, counter,
                 calls, awaiting, timers, heartbeat, jobs, unhandled>>

\* the handler returns: log, and runTask resolves with the output
TaskHandlerResolves(v) ==
  /\ mode = "task"
  /\ pc = "invoke"
  /\ invocations' = [invocations EXCEPT ![Len(invocations)].status = "returned",
                                        ![Len(invocations)].value = v]
  /\ log' = Logged(log, "info", "task executed successfully")
  /\ pc' = "resolved"
  /\ taskResult' = [NoResult EXCEPT !.value = v]
  /\ UNCHANGED <<now, startVars, mode, options, runForever, sigTermReceived, sigtermHandler, activity, counter,
                 calls, awaiting, timers, heartbeat, jobs, unhandled>>

\* the handler throws: the catch of runTask logs and throws the error on
TaskHandlerRejects(e) ==
  /\ mode = "task"
  /\ pc = "invoke"
  /\ invocations' = [invocations EXCEPT ![Len(invocations)].status = "threw",
                                        ![Len(invocations)].error = e]
  /\ TaskCatch(e)
  /\ UNCHANGED <<now, startVars, mode, options, runForever, sigTermReceived, sigtermHandler, activity, counter,
                 calls, awaiting, timers, heartbeat, jobs, unhandled>>


(***************************************************************************)
(* Queue mode.                                                             *)
(***************************************************************************)

\* bodies a received message can have: none, a JSON text, a broken text
MessageBodies == {NoText, Stringify(HiBye), BadJson}

\* what ReceiveMessage can answer once the queue has delivered n messages:
\* no Messages, or a batch of the messages it still holds
ReceiveResponses(n) ==
  {[hasMessages |-> FALSE, messages |-> <<>>]}
  \cup {[hasMessages |-> TRUE,
         messages |-> [i \in DOMAIN bodies |->
                        [Body |-> bodies[i], ReceiptHandle |-> ReceiptName(n + i)]]] :
        bodies \in UNION {[1..k -> MessageBodies] : k \in 1..(MaxMessages - n)}}

\* new DeleteMessageCommand({ QueueUrl, ReceiptHandle }): a command object,
\* which keeps its parameters in its input property
DeleteMessageCommand(receipt) == [input |-> [ReceiptHandle |-> receipt]]

\* sqs.deleteMessage(args): the method of the SQS client builds the request
\* from the properties of args
DeleteMessageRequest(args) ==
  [issued |-> TRUE,
   ReceiptHandle |-> IF "ReceiptHandle" \in DOMAIN args THEN args.ReceiptHandle
                     ELSE Undefined]

NoRequest == [issued |-> FALSE, ReceiptHandle |-> Undefined]

\* body is message.Body, deleted the DeleteMessage request the job has issued
Job(receipt, status, inv) ==
  [receipt |-> receipt, body |-> NoText, status |-> status, inv |-> inv,
   deleted |-> NoRequest]

\* the messages of a batch whose callback reaches the handler
Invoked(messages) ==
  {i \in DOMAIN messages : messages[i].Body # NoText /\ Parse(messages[i].Body).ok}

RECURSIVE NewInvocations(_, _)
NewInvocations(messages, i) ==
  IF i > Len(messages) THEN <<>>
  ELSE (IF i \in Invoked(messages)
        THEN <<Invocation(Undefined, Parse(messages[i].Body).val)>>
        ELSE <<>>) \o NewInvocations(messages, i + 1)

\* messages.map(async (message) => ...): each callback runs to its first await
NewJobs(messages) ==
  [i \in DOMAIN messages |->
     [(IF messages[i].Body = NoText
       THEN Job(messages[i].ReceiptHandle, "done", 0)
       ELSE IF ~Parse(messages[i].Body).ok
       THEN Job(messages[i].ReceiptHandle, "rejected", 0)
       ELSE Job(messages[i].ReceiptHandle, "invoking",
                Len(invocations) + Cardinality({j \in Invoked(messages) : j <= i})))
      EXCEPT !.body = messages[i].Body]]

(***************************************************************************)
(* ReceiveMessage answers.  The callbacks of the batch are started and     *)
(* `await promises` awaits the array itself, so the iteration ends at once.*)
(***************************************************************************)
ReceiveResolves(resp) ==
  /\ pc = "receive"
  /\ LET ms == resp.messages
     IN /\ jobs' = jobs \o NewJobs(ms)
        /\ invocations' = invocations \o NewInvocations(ms, 1)
        /\ unhandled' = unhandled
              + Cardinality({i \in DOMAIN ms : ms[i].Body # NoText /\ ~Parse(ms[i].Body).ok})
        /\ EndIteration(Settle(calls, awaiting, "ok"),
             IF resp.hasMessages
             THEN IF \A j \in DOMAIN ms : ms[j].Body = NoText THEN log
                  ELSE log (+) [e \in {LogEntry("info", "received message from queue, executing the task")} |->
                                  Cardinality({j \in DOMAIN ms : ms[j].Body # NoText})]
             ELSE Logged(log, "info", "There are no new messages in the queue. Polling again!"))
  /\ UNCHANGED <<now, startVars, mode, options, runForever, taskResult, sigTermReceived, sigtermHandler, timers, heartbeat>>

\* ReceiveRejects with the receive outside the try: the rejection leaves the loop
ReceiveRejects_uncaught(err) ==
  /\ pc = "receive"
  /\ calls' = Settle(calls, awaiting, "error")
  /\ awaiting' = 0
  /\ pc' = "rejected"
  /\ UNCHANGED <<now, startVars, mode, options, runForever, taskResult, sigTermReceived, sigtermHandler, activity, counter,
                 timers, heartbeat, invocations, log, jobs, unhandled>>

\* ReceiveMessage fails: the catch logs and the iteration ends
ReceiveRejects(err) ==
  /\ pc = "receive"
  /\ EndIteration(Settle(calls, awaiting, "error"),
                  Logged(log, "error", "Task failed. trying again"))
  /\ UNCHANGED <<now, startVars, mode, options, runForever, taskResult, sigTermReceived, sigtermHandler, timers, heartbeat,
                 invocations, jobs, unhandled>>

\* the handler of a message returns: log, then
\* sqs.deleteMessage(new DeleteMessageCommand({ QueueUrl, ReceiptHandle: receipt }))
SqsHandlerResolves(j, v) ==
  /\ Alive
  /\ j \in DOMAIN jobs
  /\ jobs[j].status = "invoking"
  /\ invocations' = [invocations EXCEPT ![jobs[j].inv].status = "returned",
                                        ![jobs[j].inv].value = v]
  /\ log' = Logged(log, "info", "message deleted from the queue")
  /\ jobs' = [jobs EXCEPT ![j].status = "deleting",
                           ![j].deleted = DeleteMessageRequest(DeleteMessageCommand(jobs[j].receipt))]
  /\ UNCHANGED <<now, startVars, mode, options, runForever, taskResult, pc, sigTermReceived, sigtermHandler, activity, counter,
                 calls, awaiting, timers, heartbeat, unhandled>>

\* the handler of a message throws: the promise of the callback rejects
SqsHandlerRejects(j, e) ==
  /\ Alive
  /\ j \in DOMAIN jobs
  /\ jobs[j].status = "invoking"
  /\ invocations' = [invocations EXCEPT ![jobs[j].inv].status = "threw",
                                        ![jobs[j].inv].error = e]
  /\ jobs' = [jobs EXCEPT ![j].status = "rejected"]
  /\ unhandled' = unhandled + 1
  /\ UNCHANGED <<now, startVars, mode, options, runForever, taskResult, pc, sigTermReceived, sigtermHandler, activity, counter,
                 calls, awaiting, timers, heartbeat, log>>

DeleteMessageSettles(j, ok) ==
  /\ Alive
  /\ j \in DOMAIN jobs
  /\ jobs[j].status = "deleting"
  /\ jobs' = [jobs EXCEPT ![j].status = IF ok THEN "done" ELSE "rejected"]
  /\ unhandled' = IF ok THEN unhandled ELSE unhandled + 1
  /\ UNCHANGED <<now, startVars, mode, options, runForever, taskResult, pc, sigTermReceived, sigtermHandler, activity, counter,
                 calls, awaiting, timers, heartbeat, invocations, log>>

\* a rejection nobody handles ends the process on the Node versions that
\* treat it as an uncaught exception
UnhandledRejectionCrash ==
  /\ Alive
  /\ unhandled > 0
  /\ pc' = "crashed"
  /\ UNCHANGED <<now, startVars, mode, options, runForever, taskResult, sigTermReceived, sigtermHandler, activity, counter,
                 calls, awaiting, timers, heartbeat, invocations, log, jobs, unhandled>>

Next ==
  \/ InstallResolves
  \/ InstallRejects
  \/ Sigterm
  \/ pc = "poll" /\ \E data \in PollResponses(counter) : PollResolves(data)
  \/ \E err \in SdkErrors : PollRejects(err)
  \/ \E v \in HandlerReturnValues(activity.event) : HandlerResolves(v)
  \/ \E e \in HandlerThrownValues(activity.event) : HandlerRejects(e)
  \/ \E i \in DOMAIN timers : HeartbeatTick(i)
  \/ \E i \in DOMAIN timers, ok \in BOOLEAN : HeartbeatSettles(i, ok)
  \/ SendTaskSuccessResolves
  \/ \E err \in SdkErrors : SendTaskSuccessRejects(err)
  \/ SendTaskFailureResolves
  \/ \E err \in SdkErrors : SendTaskFailureRejects(err)
  \/ OuterFailureResolves
  \/ \E err \in SdkErrors : OuterFailureRejects(err)
  \/ pc = "receive" /\ \E resp \in ReceiveResponses(Len(jobs)) : ReceiveResolves(resp)
  \/ \E err \in SdkErrors : ReceiveRejects(err)
  \/ \E j \in DOMAIN jobs : SqsHandlerResolves(j, invocations[jobs[j].inv].event)
  \/ \E j \in DOMAIN jobs : SqsHandlerRejects(j, ErrObj("Error", "it failed"))
  \/ \E j \in DOMAIN jobs, ok \in BOOLEAN : DeleteMessageSettles(j, ok)
  \/ UnhandledRejectionCrash
  \/ TaskInstallResolves
  \/ \E err \in SdkErrors : TaskInstallRejects(err)
  \/ \E v \in HandlerReturnValues(options.lambdaInput) : TaskHandlerResolves(v)
  \/ \E e \in HandlerThrownValues(options.lambdaInput) : TaskHandlerRejects(e)

Spec == Init /\ [][Next]_vars


(***************************************************************************)
(* The activity loop with time followed.  The clock counts ticks of        *)
(* TickMillis milliseconds; a timer that is due runs before the clock goes *)
(* on, a SendTaskHeartbeat takes MaxLatency ticks at most, and everything  *)
(* else (the poll, the handler, the reports) takes any time.  The service  *)
(* is called with runForever: false, as the tests call it: one iteration.  *)
(***************************************************************************)
TimedIntervals == {1000, 2000}

TimedInit ==
  /\ mode = "activity"
  /\ options \in [heartbeat : TimedIntervals, lambdaInput : {JUndefined}]
  /\ runForever = RunForeverOf("false")
  /\ taskResult = NoResult
  /\ pc = "install"
  /\ sigTermReceived = FALSE
  /\ sigtermHandler = FALSE
  /\ activity = NoActivity
  /\ counter = 0
  /\ calls = <<>>
  /\ awaiting = 0
  /\ timers = <<>>
  /\ heartbeat = 0
  /\ invocations = <<>>
  /\ log = Logged(EmptyBag, "info", "Downloading the Lambda function")
  /\ jobs = <<>>
  /\ unhandled = 0
  /\ entry = "api"
  /\ cliInput = NoText
  /\ argv = NoArgv
  /\ lambdaFn = NoFunction
  /\ downloads = <<>>
  /\ unzips = <<>>
  /\ disk = EmptyDisk
  /\ env = Undefined
  /\ handler = NoHandler
  /\ exitCode = Running
  /\ stderr = <<>>
  /\ now = 0

\* one tick passes: the service function is suspended, no timer is due, and
\* no heartbeat has been under way for MaxLatency ticks
Tick ==
  /\ pc \notin {"resolved", "rejected", "killed", "crashed"}
  /\ now < MaxTime
  /\ \A i \in DOMAIN timers :
       /\ (~timers[i].stopped /\ ~timers[i].busy) => timers[i].due > now
       /\ timers[i].busy => now - timers[i].started < MaxLatency
  /\ now' = now + 1
  /\ UNCHANGED <<mode, options, runForever, taskResult, pc, sigTermReceived, sigtermHandler,
                 activity, counter, calls, awaiting, timers, heartbeat, invocations, log, jobs,
                 unhandled, startVars>>

TimedNext ==
  \/ Tick
  \/ InstallResolves
  \/ InstallRejects
  \/ Sigterm
  \/ pc = "poll" /\ \E data \in PollResponses(counter) : PollResolves(data)
  \/ \E err \in SdkErrors : PollRejects(err)
  \/ \E v \in HandlerReturnValues(activity.event) : HandlerResolves(v)
  \/ \E e \in HandlerThrownValues(activity.event) : HandlerRejects(e)
  \/ \E i \in DOMAIN timers : HeartbeatTick(i)
  \/ \E i \in DOMAIN timers, ok \in BOOLEAN : HeartbeatSettles(i, ok)
  \/ SendTaskSuccessResolves
  \/ \E err \in SdkErrors : SendTaskSuccessRejects(err)
  \/ SendTaskFailureResolves
  \/ \E err \in SdkErrors : SendTaskFailureRejects(err)
  \/ OuterFailureResolves
  \/ \E err \in SdkErrors : OuterFailureRejects(err)

Timed == TimedInit /\ [][TimedNext]_vars


(***************************************************************************)
(* Start-up: the command of bin/service.js or a call of an exported        *)
(* function, the validation of the options, and installLambdaFunction step *)
(* by step, up to the first poll of a service or the settlement of         *)
(* runTask.  The options carry no runForever here.                         *)
(***************************************************************************)

\* process.cwd(), and the directories require() searches for a package
Cwd == "/app"
ModulePaths == <<"/app/node_modules", "/node_modules">>
layersDefaultDirectory == "/opt/"

\* path.join(dir, name)
PathJoin(dir, name) ==
  IF EndsWith(dir, "/") THEN dir \o name ELSE dir \o "/" \o name

\* the absolute path the file system resolves p to
Resolve(p) == IF StartsWith(p, "/") THEN p ELSE PathJoin(Cwd, p)

\* const isLambdaFunctionArn = (id) => id.startsWith('arn:aws:lambda')
isLambdaFunctionArn(id) == StartsWith(id, "arn:aws:lambda")

getFunctionName(lambdaId) ==
  IF isLambdaFunctionArn(lambdaId) THEN At(Split(lambdaId, ":"), 6) ELSE lambdaId

(***************************************************************************)
(* Files.  A zip archive is its entries followed by the end record that    *)
(* unzip needs; a module has the names it exports.                         *)
(***************************************************************************)
File(entries, exports) == [entries |-> entries, exports |-> exports]
Entry(name, exports) == [name |-> name, exports |-> exports, end |-> FALSE]
EndOfArchive == [name |-> "", exports |-> {}, end |-> TRUE]

\* the packages of the tests: a function with or without the message
\* adapter, and a layer
FunctionPackage(withCma) ==
  <<Entry("index.js", {"handler"})>>
  \o (IF withCma THEN <<Entry("cumulus-message-adapter", {})>> ELSE <<>>)
  \o <<EndOfArchive>>
LayerPackage == <<Entry("fakeLayer.txt", {}), EndOfArchive>>

\* a package called 'undefined' that require() can find
InstalledPackage == "/app/node_modules/undefined/index.js" :> File(<<>>, {"handler"})

\* unzip accepts a file that ends with its only end record
Unzippable(file) ==
  /\ file.entries # <<>>
  /\ \A k \in DOMAIN file.entries : file.entries[k].end = (k = Len(file.entries))

\* the files unzip -o writes into dir
Extracted(file, dir) ==
  [p \in {PathJoin(Resolve(dir), file.entries[k].name) :
            k \in 1..(Len(file.entries) - 1)} |->
     LET k == CHOOSE k \in 1..(Len(file.entries) - 1) :
                PathJoin(Resolve(dir), file.entries[k].name) = p
     IN File(<<>>, file.entries[k].exports)]

(***************************************************************************)
(* What AWS answers.                                                       *)
(***************************************************************************)
HandlerSettings == {"index.handler", "index.nothere", "other.handler", "index"}
FunctionUrl == "https://example.com/fn.zip"
LayerArn(i) == "arn:aws:lambda:us-east-1:000000000000:layer:layer-" \o ToString(i)
LayerUrl(i) == "https://example.com/layer-" \o ToString(i) \o ".zip"

\* data of GetFunction: Code.Location (with the archive it serves),
\* Configuration.Handler and Configuration.Layers
GetFunctionResponses ==
  [Location : {FunctionUrl},
   package : {FunctionPackage(c) : c \in BOOLEAN},
   Handler : HandlerSettings,
   Layers : {[i \in 1..n |-> LayerArn(i)] : n \in 0..MaxLayers}]

\* the archive a URL serves
Served(url) == IF url = FunctionUrl THEN lambdaFn.package ELSE LayerPackage

\* errors of a download attempt: a connection timeout and another one
SystemError(code) == [ErrObj("Error", "connect " \o code) EXCEPT !.code = code]
DownloadErrors == {SystemError("ETIMEDOUT"), SystemError("ECONNRESET")}

ModuleNotFound == [ErrObj("Error", "Cannot find module") EXCEPT !.code = "MODULE_NOT_FOUND"]
UnzipFailed == ErrObj("Error", "Command failed: unzip")
SyntaxErrorObj == ErrObj("SyntaxError", "Unexpected end of JSON input")
NotAFunction == ErrObj("TypeError", "handler is not a function")

\* assert(value, message) throws this when value is falsy
AssertionError(message) ==
  [ErrObj("AssertionError", message) EXCEPT !.code = "ERR_ASSERTION"]
(***************************************************************************)
(* The options a program can pass to an exported function, and the ones    *)
(* minimist builds from the command line (service.js 23-77): absent        *)
(* options are null or undefined, the directories have defaults.           *)
(***************************************************************************)
StringOptions(valid) == {JUndefined, JNum(5, 0), JStr(valid)}

ApiOptions(m) ==
  [given : {TRUE},
   lambdaArn : StringOptions("fake-function"),
   activityArn : IF m = "activity" THEN StringOptions("arn:activity") ELSE {JUndefined},
   sqsUrl : IF m = "sqs" THEN StringOptions("https://sqs/queue") ELSE {JUndefined},
   lambdaInput : IF m = "task" THEN LambdaInputs \cup {JStr("hi"), JUndefined}
                 ELSE {JUndefined},
   taskDirectory : StringOptions("/task"),
   workDirectory : StringOptions("/work"),
   layersDirectory : StringOptions("/layers"),
   heartbeat : IF m = "activity" THEN {JUndefined, JNum(1000, 0), JNum(1, 5)}
               ELSE {JUndefined}]
  \cup {NoArgv}

\* the texts given as --lambda-input
CliInputs == {NoText, Stringify(HiBye), Stringify(JStr("hi")), BadJson}

CliOptions(text) ==
  [given : {TRUE},
   lambdaArn : {JUndefined, JStr("fake-function")},
   activityArn : {JNull, JStr("arn:activity")},
   sqsUrl : {JNull, JStr("https://sqs/queue")},
   lambdaInput : {IF text = NoText THEN JNull ELSE JStr("<the text>")},
   taskDirectory : {JStr(PathJoin(Cwd, "task"))},
   workDirectory : {JStr(PathJoin(Cwd, ".tmp-work"))},
   layersDirectory : {JUndefined},
   heartbeat : {JNull, JStr("abc")}]

StartupInit ==
  /\ \/ /\ entry = "api"
        /\ mode \in Modes
        /\ cliInput = NoText
        /\ argv \in ApiOptions(mode)
        /\ disk \in IF mode = "sqs" THEN {EmptyDisk, InstalledPackage} ELSE {EmptyDisk}
     \/ /\ entry = "cli"
        /\ mode = Undefined
        /\ cliInput \in CliInputs
        /\ argv \in CliOptions(cliInput)
        /\ disk = EmptyDisk
  /\ options = [heartbeat |-> 0, lambdaInput |-> JUndefined]
  /\ runForever = RunForeverOf(Undefined)
  /\ taskResult = NoResult
  /\ pc = "start"
  /\ sigTermReceived = FALSE
  /\ sigtermHandler = FALSE
  /\ activity = NoActivity
  /\ counter = 0
  /\ calls = <<>>
  /\ awaiting = 0
  /\ timers = <<>>
  /\ heartbeat = 0
  /\ invocations = <<>>
  /\ log = EmptyBag
  /\ jobs = <<>>
  /\ unhandled = 0
  /\ lambdaFn = NoFunction
  /\ downloads = <<>>
  /\ unzips = <<>>
  /\ env = Undefined
  /\ handler = NoHandler
  /\ exitCode = Running
  /\ stderr = <<>>
  /\ now = Untimed

\* what the start-up never touches
loopOnly == <<runForever, sigTermReceived, timers, heartbeat, jobs, unhandled, now>>

(***************************************************************************)
(* The assertions at the top of the three exported functions, in order.    *)
(***************************************************************************)
Check(ok, message) == [ok |-> ok, message |-> message]

\* Assertions without the assertion on options.workDirectory
Assertions_noWorkDirectory(m, o) ==
  <<Check(o.given, "options.lambdaArn string is required")>>
  \o (IF m = "task"
      THEN <<Check(typeof(o.lambdaInput) = "object", "options.lambdaInput object is required")>>
      ELSE <<Check(IsRequiredString(o.lambdaArn), "options.lambdaArn string is required")>>)
  \o (IF m = "activity"
      THEN <<Check(IsRequiredString(o.activityArn), "options.activityArn string is required")>>
      ELSE <<>>)
  \o (IF m = "sqs"
      THEN <<Check(IsRequiredString(o.sqsUrl), "options.sqsUrl string is required")>>
      ELSE <<>>)
  \o <<Check(IsRequiredString(o.taskDirectory), "options.taskDirectory string is required"),
       Check(~JTruthy(o.layersDirectory) \/ typeof(o.layersDirectory) = "string",
             "options.layersDir should be a string")>>
  \o (IF m = "activity" /\ JTruthy(o.heartbeat)
      THEN <<Check(NumberIsInteger(o.heartbeat), "options.heartbeat must be an integer")>>
      ELSE <<>>)

Assertions(m, o) ==
  <<Check(o.given, "options.lambdaArn string is required")>>
  \o (IF m = "task"
      THEN <<Check(typeof(o.lambdaInput) = "object", "options.lambdaInput object is required")>>
      ELSE <<Check(IsRequiredString(o.lambdaArn), "options.lambdaArn string is required")>>)
  \o (IF m = "activity"
      THEN <<Check(IsRequiredString(o.activityArn), "options.activityArn string is required")>>
      ELSE <<>>)
  \o (IF m = "sqs"
      THEN <<Check(IsRequiredString(o.sqsUrl), "options.sqsUrl string is required")>>
      ELSE <<>>)
  \o <<Check(IsRequiredString(o.taskDirectory), "options.taskDirectory string is required"),
       Check(IsRequiredString(o.workDirectory), "options.workDirectory string is required"),
       Check(~JTruthy(o.layersDirectory) \/ typeof(o.layersDirectory) = "string",
             "options.layersDir should be a string")>>
  \o (IF m = "activity" /\ JTruthy(o.heartbeat)
      THEN <<Check(NumberIsInteger(o.heartbeat), "options.heartbeat must be an integer")>>
      ELSE <<>>)

\* the first assertion that fails (0: none does)
FirstFailure(checks) ==
  IF \A k \in DOMAIN checks : checks[k].ok THEN 0
  ELSE CHOOSE k \in DOMAIN checks :
         ~checks[k].ok /\ \A j \in 1..(k - 1) : checks[j].ok

\* the value of a number that is an integer
NumberOf(v) == CHOOSE n \in 0..1000 : ToString(n) = v.s

\* the arguments of installLambdaFunction: runServiceFromSQS destructures
\* `taskDirecotry`, which options does not have
WorkDir == argv.workDirectory.s
TaskDir == IF mode = "sqs" THEN Undefined ELSE argv.taskDirectory.s
LayersDir ==
  IF JTruthy(argv.layersDirectory) THEN argv.layersDirectory.s
  ELSE layersDefaultDirectory

\* the promise of the exported function rejects with err
Rejects(err) == [NoResult EXCEPT !.error = err]

(***************************************************************************)
(* The exported function m is called with o and runs to its first await:   *)
(* the assertions, the log sender (which reads lambdaArn as a string), the *)
(* log entry, and GetFunction sent by getLambdaSource.                     *)
(***************************************************************************)
Enter(m, o, logNow) ==
  LET checks == Assertions(m, o)
      failed == FirstFailure(checks)
  IN IF failed # 0
     THEN /\ pc' = "rejected"
          /\ taskResult' = Rejects(AssertionError(checks[failed].message))
          /\ log' = logNow
          /\ UNCHANGED <<options, calls, awaiting>>
     ELSE IF typeof(o.lambdaArn) # "string"
     THEN /\ pc' = "rejected"
          /\ taskResult' = Rejects(TypeErrorObj)
          /\ log' = logNow
          /\ UNCHANGED <<options, calls, awaiting>>
     ELSE /\ options' = [heartbeat |-> IF m = "activity" /\ JTruthy(o.heartbeat)
                                        THEN NumberOf(o.heartbeat) ELSE 0,
                         lambdaInput |-> o.lambdaInput]
          /\ log' = Logged(logNow, "info", "Downloading the Lambda function")
          /\ calls' = Append(calls, Call("GetFunction"))
          /\ awaiting' = Len(calls) + 1
          /\ pc' = "getFunction"
          /\ taskResult' = taskResult

\* a program calls runServiceFromActivity, runServiceFromSQS or runTask
ApiCall ==
  /\ entry = "api"
  /\ pc = "start"
  /\ Enter(mode, argv, log)
  /\ UNCHANGED <<mode, sigtermHandler, activity, counter, invocations, loopOnly,
                 entry, cliInput, argv, lambdaFn, downloads, unzips, disk, env, handler,
                 exitCode, stderr>>

\* an exception nobody catches ends the process with exit code 1
Uncaught(err) ==
  /\ pc' = "crashed"
  /\ exitCode' = 1
  /\ stderr' = Append(stderr, err)

\* CliDispatch with sqs-url tested before activity-arn
CliDispatch_sqsFirst ==
  /\ entry = "cli"
  /\ pc = "start"
  /\ LET logNow == Logged(log, "info", "Starting the cumulus-ecs-task runner ...")
         parsed == Parse(cliInput)
     IN IF JTruthy(argv.sqsUrl)
        THEN /\ mode' = "sqs"
             /\ Enter("sqs", argv, logNow)
             /\ UNCHANGED <<argv, exitCode, stderr>>
        ELSE IF JTruthy(argv.activityArn)
        THEN /\ mode' = "activity"
             /\ Enter("activity", argv, logNow)
             /\ UNCHANGED <<argv, exitCode, stderr>>
        ELSE IF JTruthy(argv.lambdaInput)
        THEN IF parsed.ok
             THEN /\ mode' = "task"
                  /\ argv' = [argv EXCEPT !.lambdaInput = parsed.val]
                  /\ Enter("task", argv', logNow)
                  /\ UNCHANGED <<exitCode, stderr>>
             ELSE /\ Uncaught(SyntaxErrorObj)
                  /\ log' = logNow
                  /\ UNCHANGED <<mode, argv, options, taskResult, calls, awaiting>>
        ELSE /\ IF LoggerErrorThrows(JUndefined)
                THEN /\ Uncaught(TypeErrorObj)
                     /\ log' = logNow
                ELSE /\ log' = Logged(logNow, "error", "<the thrown value>")
                     /\ pc' = "exited"
                     /\ exitCode' = 1
                     /\ stderr' = stderr
             /\ UNCHANGED <<mode, argv, options, taskResult, calls, awaiting>>
  /\ UNCHANGED <<sigtermHandler, activity, counter, invocations, loopOnly,
                 entry, cliInput, lambdaFn, downloads, unzips, disk, env, handler>>

(***************************************************************************)
(* bin/service.js: log, then the first of activity-arn, sqs-url and        *)
(* lambda-input that is truthy selects the function to call; with none     *)
(* the script calls log.error with a message only, and Logger.error reads  *)
(* the stack of its missing second argument.                               *)
(***************************************************************************)
CliDispatch ==
  /\ entry = "cli"
  /\ pc = "start"
  /\ LET logNow == Logged(log, "info", "Starting the cumulus-ecs-task runner ...")
         parsed == Parse(cliInput)
     IN IF JTruthy(argv.activityArn)
        THEN /\ mode' = "activity"
             /\ Enter("activity", argv, logNow)
             /\ UNCHANGED <<argv, exitCode, stderr>>
        ELSE IF JTruthy(argv.sqsUrl)
        THEN /\ mode' = "sqs"
             /\ Enter("sqs", argv, logNow)
             /\ UNCHANGED <<argv, exitCode, stderr>>
        ELSE IF JTruthy(argv.lambdaInput)
        THEN IF parsed.ok
             THEN /\ mode' = "task"
                  /\ argv' = [argv EXCEPT !.lambdaInput = parsed.val]
                  /\ Enter("task", argv', logNow)
                  /\ UNCHANGED <<exitCode, stderr>>
             ELSE /\ Uncaught(SyntaxErrorObj)
                  /\ log' = logNow
                  /\ UNCHANGED <<mode, argv, options, taskResult, calls, awaiting>>
        ELSE /\ IF LoggerErrorThrows(JUndefined)
                THEN /\ Uncaught(TypeErrorObj)
                     /\ log' = logNow
                ELSE /\ log' = Logged(logNow, "error", "<the thrown value>")
                     /\ pc' = "exited"
                     /\ exitCode' = 1
                     /\ stderr' = stderr
             /\ UNCHANGED <<mode, argv, options, taskResult, calls, awaiting>>
  /\ UNCHANGED <<sigtermHandler, activity, counter, invocations, loopOnly,
                 entry, cliInput, lambdaFn, downloads, unzips, disk, env, handler>>

(***************************************************************************)
(* installLambdaFunction.                                                  *)
(***************************************************************************)
Installing == pc \in {"getFunction", "getLayers", "downloadLayers", "download", "unzip"}

\* installLambdaFunction rejects with err: runTask catches it, the service
\* functions reject with it
InstallFails(err, logNow) ==
  IF mode = "task" THEN TaskCatchAfter(err, logNow)
  ELSE /\ pc' = "rejected"
       /\ taskResult' = Rejects(err)
       /\ log' = logNow

\* a call of downloadFile(url, destinationFilename)
\* attempts counts the attempts p-retry has made while the call is pending or
\* when it has failed, error is the error of the last attempt that failed;
\* once the call has resolved only `retried` is kept
Download(url, dest) ==
  [url |-> url, dest |-> dest, attempts |-> 0, retried |-> FALSE, status |-> "pending",
   error |-> NoError]

\* a command `unzip -q -o file -d dir`
Unzip(file, dir) == [file |-> file, dir |-> dir, status |-> "pending"]

\* the zip file of layer i: `${layersDir}/${getFunctionName(layer.LayerArn)}.zip`
LayerFile(i) == LayersDir \o "/" \o Template(getFunctionName(lambdaFn.Layers[i])) \o ".zip"

\* getLambdaSource after GetFunction: the layers are looked up, or, without
\* layers, the code is downloaded
GetFunctionResolves(data) ==
  /\ pc = "getFunction"
  /\ lambdaFn' = data
  /\ IF data.Layers # <<>>
     THEN /\ calls' = Settle(calls, awaiting, "ok")
                      \o [i \in DOMAIN data.Layers |-> Call("GetLayerVersionByArn")]
          /\ pc' = "getLayers"
          /\ downloads' = downloads
     ELSE /\ calls' = Settle(calls, awaiting, "ok")
          /\ pc' = "download"
          /\ downloads' = <<Download(data.Location, PathJoin(WorkDir, "fn.zip"))>>
  /\ awaiting' = 0
  /\ UNCHANGED <<mode, options, taskResult, sigtermHandler, activity, counter, invocations,
                 log, loopOnly, entry, cliInput, argv, unzips, disk, env, handler,
                 exitCode, stderr>>

GetFunctionRejects(err) ==
  /\ pc = "getFunction"
  /\ calls' = Settle(calls, awaiting, "error")
  /\ awaiting' = 0
  /\ InstallFails(err, log)
  /\ UNCHANGED <<mode, options, sigtermHandler, activity, counter, invocations, loopOnly,
                 entry, cliInput, argv, lambdaFn, downloads, unzips, disk, env, handler,
                 exitCode, stderr>>

\* the calls of GetLayerVersionByArn
LayerLookups == {i \in DOMAIN calls : calls[i].cmd = "GetLayerVersionByArn"}

\* Promise.all of the layer lookups resolves: downloadLayers logs every
\* layer and starts its download
GetLayerVersionsResolve ==
  /\ pc = "getLayers"
  /\ calls' = [i \in DOMAIN calls |->
                 IF i \in LayerLookups THEN [calls[i] EXCEPT !.result = "ok"] ELSE calls[i]]
  /\ log' = log (+) [e \in {LogEntry("info", "Adding layer " \o LayerArn(i) \o " to container") :
                            i \in DOMAIN lambdaFn.Layers} |-> 1]
  /\ downloads' = [i \in DOMAIN lambdaFn.Layers |-> Download(LayerUrl(i), LayerFile(i))]
  /\ pc' = "downloadLayers"
  /\ UNCHANGED <<mode, options, taskResult, sigtermHandler, activity, counter, awaiting,
                 invocations, loopOnly, entry, cliInput, argv, lambdaFn, unzips, disk, env,
                 handler, exitCode, stderr>>

\* one of the layer lookups rejects
GetLayerVersionsReject(err) ==
  /\ pc = "getLayers"
  /\ \E k \in LayerLookups : calls' = [calls EXCEPT ![k].result = "error"]
  /\ InstallFails(err, log)
  /\ UNCHANGED <<mode, options, sigtermHandler, activity, counter, awaiting, invocations,
                 loopOnly, entry, cliInput, argv, lambdaFn, downloads, unzips, disk, env,
                 handler, exitCode, stderr>>

(***************************************************************************)
(* downloadFile: p-retry runs tryToDownloadFile again after an attempt     *)
(* that failed with ETIMEDOUT, Retries times at most, and gives up at once *)
(* on the AbortError that wraps any other error.  Every attempt opens the  *)
(* destination with fs.createWriteStream, which empties it.                *)
(***************************************************************************)
\* the file after an attempt that wrote the chunks `written`
Written(d, written) == Resolve(d.dest) :> File(written, {})

\* the downloads of the current step are all done
AllDone(ds) == \A k \in DOMAIN ds : ds[k].status = "done"

\* the unzip commands of installLambdaFunction: the layers, then the code
UnzipCommands(ds) ==
  [k \in DOMAIN ds |->
     Unzip(ds[k].dest, IF k = Len(ds) THEN Template(TaskDir) ELSE LayersDir)]

\* DownloadAttemptSucceeds with a write stream that appends to the file
DownloadAttemptSucceeds_appends(i) ==
  /\ exitCode = Running
  /\ downloads[i].status = "pending"
  /\ disk' = Written(downloads[i],
                     (IF Resolve(downloads[i].dest) \in DOMAIN disk
                      THEN disk[Resolve(downloads[i].dest)].entries ELSE <<>>)
                     \o Served(downloads[i].url)) @@ disk
  /\ LET ds == [downloads EXCEPT ![i].attempts = 0, ![i].retried = downloads[i].attempts > 0,
                                ![i].status = "done", ![i].error = NoError]
     IN IF pc = "downloadLayers" /\ AllDone(ds)
        THEN /\ downloads' = Append(ds, Download(lambdaFn.Location, PathJoin(WorkDir, "fn.zip")))
             /\ pc' = "download"
             /\ unzips' = unzips
        ELSE IF pc = "download" /\ AllDone(ds)
        THEN /\ downloads' = ds
             /\ pc' = "unzip"
             /\ unzips' = UnzipCommands(ds)
        ELSE /\ downloads' = ds
             /\ UNCHANGED <<pc, unzips>>
  /\ UNCHANGED <<mode, options, taskResult, sigtermHandler, activity, counter, calls,
                 awaiting, invocations, log, loopOnly, entry, cliInput, argv, lambdaFn, env,
                 handler, exitCode, stderr>>

\* an attempt of download i succeeds: the whole body is in the file, and
\* the step that waited for the downloads goes on when all are done
DownloadAttemptSucceeds(i) ==
  /\ exitCode = Running
  /\ downloads[i].status = "pending"
  /\ disk' = Written(downloads[i], Served(downloads[i].url)) @@ disk
  /\ LET ds == [downloads EXCEPT ![i].attempts = 0, ![i].retried = downloads[i].attempts > 0,
                                ![i].status = "done", ![i].error = NoError]
     IN IF pc = "downloadLayers" /\ AllDone(ds)
        THEN /\ downloads' = Append(ds, Download(lambdaFn.Location, PathJoin(WorkDir, "fn.zip")))
             /\ pc' = "download"
             /\ unzips' = unzips
        ELSE IF pc = "download" /\ AllDone(ds)
        THEN /\ downloads' = ds
             /\ pc' = "unzip"
             /\ unzips' = UnzipCommands(ds)
        ELSE /\ downloads' = ds
             /\ UNCHANGED <<pc, unzips>>
  /\ UNCHANGED <<mode, options, taskResult, sigtermHandler, activity, counter, calls,
                 awaiting, invocations, log, loopOnly, entry, cliInput, argv, lambdaFn, env,
                 handler, exitCode, stderr>>

\* DownloadAttemptFails with a retry after any error
DownloadAttemptFails_retriesAll(i, err, written) ==
  /\ exitCode = Running
  /\ downloads[i].status = "pending"
  /\ disk' = Written(downloads[i], SubSeq(Served(downloads[i].url), 1, written)) @@ disk
  /\ LET attemptNumber == downloads[i].attempts + 1
         retry == attemptNumber <= Retries
     IN /\ downloads' = [downloads EXCEPT ![i].attempts = attemptNumber,
                                          ![i].status = IF retry THEN "pending" ELSE "failed",
                                          ![i].error = err]
        /\ IF ~retry /\ Installing
           THEN InstallFails(err, log)
           ELSE UNCHANGED <<pc, taskResult, log>>
  /\ UNCHANGED <<mode, options, sigtermHandler, activity, counter, calls, awaiting,
                 invocations, loopOnly, entry, cliInput, argv, lambdaFn, unzips, env, handler,
                 exitCode, stderr>>

\* DownloadAttemptFails with one retry more than p-retry makes
DownloadAttemptFails_oneMore(i, err, written) ==
  /\ exitCode = Running
  /\ downloads[i].status = "pending"
  /\ disk' = Written(downloads[i], SubSeq(Served(downloads[i].url), 1, written)) @@ disk
  /\ LET attemptNumber == downloads[i].attempts + 1
         retry == err.code = "ETIMEDOUT" /\ attemptNumber <= Retries + 1
     IN /\ downloads' = [downloads EXCEPT ![i].attempts = attemptNumber,
                                          ![i].status = IF retry THEN "pending" ELSE "failed",
                                          ![i].error = err]
        /\ IF ~retry /\ Installing
           THEN InstallFails(err, log)
           ELSE UNCHANGED <<pc, taskResult, log>>
  /\ UNCHANGED <<mode, options, sigtermHandler, activity, counter, calls, awaiting,
                 invocations, loopOnly, entry, cliInput, argv, lambdaFn, unzips, env, handler,
                 exitCode, stderr>>

\* an attempt fails with err after `written` chunks reached the file: the
\* error is kept, and p-retry tries again or downloadFile rejects with it
DownloadAttemptFails(i, err, written) ==
  /\ exitCode = Running
  /\ downloads[i].status = "pending"
  /\ disk' = Written(downloads[i], SubSeq(Served(downloads[i].url), 1, written)) @@ disk
  /\ LET attemptNumber == downloads[i].attempts + 1
         retry == err.code = "ETIMEDOUT" /\ attemptNumber <= Retries
     IN /\ downloads' = [downloads EXCEPT ![i].attempts = attemptNumber,
                                          ![i].status = IF retry THEN "pending" ELSE "failed",
                                          ![i].error = err]
        /\ IF ~retry /\ Installing
           THEN InstallFails(err, log)
           ELSE UNCHANGED <<pc, taskResult, log>>
  /\ UNCHANGED <<mode, options, sigtermHandler, activity, counter, calls, awaiting,
                 invocations, loopOnly, entry, cliInput, argv, lambdaFn, unzips, env, handler,
                 exitCode, stderr>>

(***************************************************************************)
(* The rest of installLambdaFunction, run when the last unzip has          *)
(* succeeded: setCumulusMessageAdapterPath, require of the module, and the *)
(* function it exports under the name of the Handler setting.  The caller  *)
(* goes on in the same turn: a service registers its SIGTERM handler and   *)
(* starts the first iteration, runTask invokes the handler.                *)
(***************************************************************************)
\* the files require(id) tries, in this order
RequireCandidates(id) ==
  IF StartsWith(id, "/") THEN <<id, id \o ".js">>
  ELSE <<PathJoin(ModulePaths[1], id), PathJoin(ModulePaths[1], id) \o ".js",
         PathJoin(ModulePaths[2], id), PathJoin(ModulePaths[2], id) \o ".js">>

\* the file require(id) loads (Undefined: MODULE_NOT_FOUND)
RequireResolve(id, diskNow) ==
  LET tries == RequireCandidates(id)
      hits == {k \in DOMAIN tries : tries[k] \in DOMAIN diskNow}
  IN IF hits = {} THEN Undefined
     ELSE tries[CHOOSE k \in hits : \A j \in hits : k <= j]

\* CmaPath and adapterPath of setCumulusMessageAdapterPath(taskDir, layerDir)
CmaPath(taskDir) == Template(taskDir) \o "/cumulus-message-adapter"
AdapterPath(taskDir, layerDir, diskNow) ==
  IF Resolve(CmaPath(taskDir)) \in DOMAIN diskNow THEN CmaPath(taskDir) ELSE layerDir

\* moduleFileName and moduleFunctionName of getLambdaSource
ModuleFileName(handlerId) == At(Split(handlerId, "."), 0)
ModuleFunctionName(handlerId) == At(Split(handlerId, "."), 1)

FinishInstall(diskNow) ==
  LET adapterPath == AdapterPath(TaskDir, LayersDir, diskNow)
      logNow == Logged(log, "info", "Setting CMA path to " \o adapterPath)
      file == RequireResolve(Template(TaskDir) \o "/" \o ModuleFileName(lambdaFn.Handler),
                             diskNow)
      callable == ModuleFunctionName(lambdaFn.Handler) \in diskNow[file].exports
  IN /\ env' = adapterPath
     /\ IF file = Undefined
        THEN /\ InstallFails(ModuleNotFound, logNow)
             /\ UNCHANGED <<handler, sigtermHandler, counter, calls, awaiting, activity,
                            invocations>>
        ELSE /\ handler' = [returned |-> TRUE, callable |-> callable, cmaDir |-> adapterPath]
             /\ IF mode = "task"
                THEN /\ IF callable
                        THEN /\ invocations' =
                                  Append(invocations, Invocation(Undefined, options.lambdaInput))
                             /\ pc' = "invoke"
                             /\ log' = logNow
                             /\ taskResult' = taskResult
                        ELSE /\ TaskCatchAfter(NotAFunction, logNow)
                             /\ invocations' = invocations
                     /\ UNCHANGED <<sigtermHandler, counter, calls, awaiting, activity>>
                ELSE /\ sigtermHandler' = TRUE
                     /\ counter' = 1
                     /\ StartIteration(calls, logNow)
                     /\ UNCHANGED <<taskResult, invocations>>

\* unzip command i ends: it fails on a file that is no archive, and
\* Promise.all rejects; it writes the entries otherwise, and the last one
\* to succeed lets installLambdaFunction go on
UnzipSettles(i) ==
  /\ exitCode = Running
  /\ unzips[i].status = "pending"
  /\ LET file == disk[Resolve(unzips[i].file)]
         ok == Unzippable(file)
         us == [unzips EXCEPT ![i].status = IF ok THEN "done" ELSE "failed"]
         diskNow == IF ok THEN Extracted(file, unzips[i].dir) @@ disk ELSE disk
     IN /\ unzips' = us
        /\ disk' = diskNow
        /\ IF pc # "unzip"
           THEN UNCHANGED <<pc, taskResult, log, env, handler, sigtermHandler, counter, calls,
                            awaiting, activity, invocations>>
           ELSE IF ~ok
           THEN /\ InstallFails(UnzipFailed, log)
                /\ UNCHANGED <<env, handler, sigtermHandler, counter, calls, awaiting,
                               activity, invocations>>
           ELSE IF \A k \in DOMAIN us : us[k].status = "done"
           THEN FinishInstall(diskNow)
           ELSE UNCHANGED <<pc, taskResult, log, env, handler, sigtermHandler, counter,
                            calls, awaiting, activity, invocations>>
  /\ UNCHANGED <<mode, options, loopOnly, entry, cliInput, argv, lambdaFn, downloads,
                 exitCode, stderr>>

(***************************************************************************)
(* The end of the command: the promise of the exported function has        *)
(* settled and nothing is left to wait for.  service.js attached           *)
(* .catch(console.error) to the promise, so a rejection is printed and     *)
(* handled; nothing sets an exit code.                                     *)
(***************************************************************************)
Idle ==
  /\ \A k \in DOMAIN downloads : downloads[k].status # "pending"
  /\ \A k \in DOMAIN unzips : unzips[k].status # "pending"

CliSettles ==
  /\ entry = "cli"
  /\ exitCode = Running
  /\ pc \in {"resolved", "rejected"}
  /\ Idle
  /\ stderr' = IF pc = "rejected" THEN Append(stderr, taskResult.error) ELSE stderr
  /\ exitCode' = 0
  /\ UNCHANGED <<mode, options, taskResult, pc, sigtermHandler, activity, counter, calls,
                 awaiting, invocations, log, loopOnly, entry, cliInput, argv, lambdaFn,
                 downloads, unzips, disk, env, handler>>

StartupNext ==
  \/ ApiCall
  \/ CliDispatch
  \/ \E data \in GetFunctionResponses : GetFunctionResolves(data)
  \/ \E err \in SdkErrors : GetFunctionRejects(err)
  \/ GetLayerVersionsResolve
  \/ \E err \in SdkErrors : GetLayerVersionsReject(err)
  \/ \E i \in DOMAIN downloads : DownloadAttemptSucceeds(i)
  \/ \E i \in DOMAIN downloads, err \in DownloadErrors, written \in PartialWrites :
       DownloadAttemptFails(i, err, written)
  \/ \E i \in DOMAIN unzips : UnzipSettles(i)
  \/ \E v \in HandlerReturnValues(options.lambdaInput) : TaskHandlerResolves(v)
  \/ \E e \in HandlerThrownValues(options.lambdaInput) : TaskHandlerRejects(e)
  \/ CliSettles

Startup == StartupInit /\ [][StartupNext]_vars



(***************************************************************************)
(* Vocabulary of the properties.                                           *)
(***************************************************************************)
ReportCmds == {"SendTaskSuccess", "SendTaskFailure"}
PollCmds == {"GetActivityTask", "ReceiveMessage"}

Successes(t) ==
  {i \in DOMAIN calls : calls[i].cmd = "SendTaskSuccess" /\ calls[i].taskToken = t}
Failures(t) ==
  {i \in DOMAIN calls : calls[i].cmd = "SendTaskFailure" /\ calls[i].taskToken = t}
Reports(t) == Successes(t) \cup Failures(t)

\* the service function is inside its loop
InLoop ==
  /\ mode \in {"activity", "sqs"}
  /\ pc \in {"poll", "invoke", "clear", "success", "failure", "failure2", "receive"}
\* the service function has left its loop
LeftLoop == counter >= 1 /\ pc \in {"resolved", "rejected"}

\* this step issues a new call of the service function
Issues(cmds) ==
  /\ Len(calls') = Len(calls) + 1
  /\ calls'[Len(calls')].cmd \in cmds

\* this step is the failure of the call the service function awaits
AwaitedCallFails(cmds) ==
  /\ awaiting \in DOMAIN calls
  /\ calls[awaiting].cmd \in cmds
  /\ calls[awaiting].result = "pending"
  /\ calls'[awaiting].result = "error"

\* the timers that have not been stopped
RunningTimers == {i \in DOMAIN timers : ~timers[i].stopped}

\* the answered polls that handed a work item to the loop: a token, an
\* input, and an input that is a JSON text
WorkPolls ==
  {i \in DOMAIN calls : /\ calls[i].cmd = "GetActivityTask"
                        /\ calls[i].result = "ok"
                        /\ calls[i].taskToken \notin {Undefined, ""}
                        /\ calls[i].input # NoText
                        /\ Parse(calls[i].input).ok}

(***************************************************************************)
(* C1: in activity mode, a work item whose handler invocation returned v   *)
(* gets exactly one SendTaskSuccess, with its token and JSON.stringify(v)  *)
(* as output, and no SendTaskFailure.                                      *)
(***************************************************************************)
C1_SuccessReportedOnce ==
  mode = "activity" =>
    \A k \in DOMAIN invocations :
      invocations[k].status = "returned" =>
        LET t == invocations[k].taskToken
        IN /\ Failures(t) = {}
           /\ Cardinality(Successes(t)) <= 1
           /\ \A i \in Successes(t) : calls[i].output = Stringify(invocations[k].value)
           /\ (k < Len(invocations) \/ pc # "clear") => Cardinality(Successes(t)) = 1

(***************************************************************************)
(* C2: in activity mode, a work item whose handler invocation threw an     *)
(* error with name n and message m gets exactly one SendTaskFailure, with  *)
(* its token, error = n and cause = m, and no SendTaskSuccess.             *)
(***************************************************************************)
C2_FailureReportedOnce ==
  mode = "activity" =>
    \A k \in DOMAIN invocations :
      (invocations[k].status = "threw" /\ invocations[k].error.t = "object") =>
        LET t == invocations[k].taskToken
        IN /\ Successes(t) = {}
           /\ Cardinality(Failures(t)) = 1
           /\ \A i \in Failures(t) : /\ calls[i].error = invocations[k].error.name
                                     /\ calls[i].cause = invocations[k].error.message

(***************************************************************************)
(* C3: no SendTaskHeartbeat is sent for a token once the SendTaskSuccess   *)
(* or SendTaskFailure of that token has been issued, whether the handler   *)
(* returned or threw.                                                      *)
(***************************************************************************)
C3_NoHeartbeatAfterReport ==
  [][\A i \in DOMAIN timers :
       timers'[i].sent > timers[i].sent => Reports(timers[i].taskToken) = {}]_vars

(***************************************************************************)
(* C4: a heartbeat timer never outlives the iteration that started it: no  *)
(* timer is running when an iteration starts its poll or when the service  *)
(* function has settled, and at most one timer runs at any time.           *)
(***************************************************************************)
C4_TimerOwnedByIteration ==
  /\ pc \in {"poll", "resolved", "rejected"} => RunningTimers = {}
  /\ Cardinality(RunningTimers) <= 1

(***************************************************************************)
(* C5: in activity mode a SendTaskSuccess or SendTaskFailure that fails    *)
(* never ends the service: the step in which the report fails, and every   *)
(* later one, leaves runServiceFromActivity unrejected; the loop is left   *)
(* only by resolving, and only when runForever && !sigTermReceived is      *)
(* false.                                                                  *)
(***************************************************************************)
C5_ReportFailureKeepsLoop ==
  [][(mode = "activity" /\ AwaitedCallFails(ReportCmds)) =>
       /\ pc' # "rejected"
       /\ pc' = "resolved" => ~(runForever /\ ~sigTermReceived)]_vars

(***************************************************************************)
(* C6: in activity mode a failed report is not retried: no SendTaskSuccess *)
(* or SendTaskFailure is issued for a token for which such a call has      *)
(* already returned an error.                                              *)
(***************************************************************************)
C6_FailedReportNotRetried ==
  [][(mode = "activity" /\ Issues(ReportCmds)) =>
       \A i \in Reports(calls'[Len(calls')].taskToken) : calls'[i].result # "error"]_vars


(***************************************************************************)
(* C7: a SIGTERM delivered while an activity-mode iteration polls or runs  *)
(* the handler does not interrupt it: when runServiceFromActivity has left *)
(* its loop, every work item a poll handed to it has been invoked to       *)
(* completion and its outcome has been reported, a returned value by a     *)
(* SendTaskSuccess and a thrown one by a SendTaskFailure, and that report  *)
(* has settled.                                                            *)
(***************************************************************************)
C7_IterationCompletesAfterSigterm ==
  (mode = "activity" /\ LeftLoop) =>
    \A i \in WorkPolls :
      LET t == calls[i].taskToken
      IN /\ \E k \in DOMAIN invocations :
              /\ invocations[k].taskToken = t
              /\ \/ invocations[k].status = "returned" /\ Successes(t) # {}
                 \/ invocations[k].status = "threw" /\ Failures(t) # {}
         /\ \A r \in Reports(t) : calls[r].result # "pending"

\* SIGTERM ended a loop that runs forever: it came during the last
\* iteration, that iteration obtained a work item, and the loop has been
\* left since
C7_Witness ==
  /\ mode = "activity"
  /\ pc = "resolved"
  /\ runForever
  /\ sigTermReceived
  /\ \E i \in WorkPolls : \A j \in DOMAIN calls : calls[j].cmd = "GetActivityTask" => j <= i

(***************************************************************************)
(* C8: once SIGTERM has been received by a running loop (either mode), no  *)
(* new GetActivityTask or ReceiveMessage is issued, and the service        *)
(* function leaves its loop only when runForever && !sigTermReceived is    *)
(* false.                                                                  *)
(***************************************************************************)
C8_SigtermStopsPolling ==
  [][/\ sigTermReceived => ~Issues(PollCmds)
     /\ (InLoop /\ pc' \in {"resolved", "rejected"}) => ~(runForever /\ ~sigTermReceived)]_vars

(***************************************************************************)
(* C9: in activity mode, as long as every poll has returned no work (no    *)
(* token, an empty token or no input), the handler has not been invoked,   *)
(* no heartbeat timer has been started, and no SendTaskHeartbeat,          *)
(* SendTaskSuccess or SendTaskFailure has been issued.                     *)
(***************************************************************************)
C9_NoWorkNoEffects ==
  (/\ mode = "activity"
   /\ \A i \in DOMAIN calls :
        calls[i].cmd = "GetActivityTask" =>
          \/ calls[i].result = "pending"
          \/ /\ calls[i].result = "ok"
             /\ calls[i].taskToken \in {Undefined, ""} \/ calls[i].input = NoText)
  => /\ invocations = <<>>
     /\ timers = <<>>
     /\ HeartbeatCount = 0
     /\ \A i \in DOMAIN calls : calls[i].cmd \notin ReportCmds

\* two polls in a row returned no work: one an empty token, one no input
C9_Witness ==
  /\ mode = "activity"
  /\ \E i, j \in DOMAIN calls :
       /\ i < j
       /\ calls[i].cmd = "GetActivityTask" /\ calls[i].result = "ok"
       /\ calls[j].cmd = "GetActivityTask" /\ calls[j].result = "ok"
       /\ calls[i].taskToken = "" /\ calls[i].input # NoText
       /\ calls[j].taskToken \notin {Undefined, ""} /\ calls[j].input = NoText

(***************************************************************************)
(* C10: in activity mode a GetActivityTask that fails is logged and ends   *)
(* only its iteration: the handler is not invoked, no timer is started, no *)
(* report is issued, runServiceFromActivity does not reject, and with      *)
(* runForever true and no SIGTERM received the next poll is issued.        *)
(***************************************************************************)
C10_PollErrorEndsIteration ==
  [][(mode = "activity" /\ AwaitedCallFails({"GetActivityTask"})) =>
       /\ CopiesIn(LogEntry("error", "Task failed. trying again"), log')
            = CopiesIn(LogEntry("error", "Task failed. trying again"), log) + 1
       /\ invocations' = invocations
       /\ timers' = timers
       /\ ~Issues(ReportCmds)
       /\ pc' # "rejected"
       /\ IF runForever /\ ~sigTermReceived
          THEN pc' = "poll" /\ Issues({"GetActivityTask"})
          ELSE pc' = "resolved"]_vars

\* a poll failed and the next poll is pending
C10_Witness ==
  /\ mode = "activity"
  /\ pc = "poll"
  /\ awaiting >= 2
  /\ calls[awaiting - 1].cmd = "GetActivityTask"
  /\ calls[awaiting - 1].result = "error"
  /\ calls[awaiting].result = "pending"

\* the handler invocations that have not settled, and the calls of the
\* service function that have not been answered
PendingInvocations == {k \in DOMAIN invocations : invocations[k].status = "pending"}
PendingCalls(cmds) ==
  {i \in DOMAIN calls : calls[i].cmd \in cmds /\ calls[i].result = "pending"}

(***************************************************************************)
(* C11: in activity mode at most one work item is in flight: at most one   *)
(* handler invocation or report is pending at any time, and no             *)
(* GetActivityTask is pending while a handler invocation or a report is.   *)
(***************************************************************************)
C11_OneWorkItemInFlight ==
  mode = "activity" =>
    /\ Cardinality(PendingInvocations) + Cardinality(PendingCalls(ReportCmds)) <= 1
    /\ PendingCalls({"GetActivityTask"}) # {} =>
         PendingInvocations = {} /\ PendingCalls(ReportCmds) = {}

\* a second work item is being invoked after the first one was dealt with
C11_Witness ==
  /\ mode = "activity"
  /\ Len(invocations) = 2
  /\ PendingInvocations = {2}

\* the log entries of startHeartbeat's callback
HeartbeatSentLog == LogEntry("info", "sending heartbeat")
HeartbeatErrorLog == LogEntry("error", "error sending heartbeat")

\* this step is the end of a SendTaskHeartbeat of timer i that failed: the
\* send has settled and the line after it was not reached
HeartbeatFails(i) ==
  /\ timers[i].busy
  /\ ~timers'[i].busy
  /\ CopiesIn(HeartbeatSentLog, log') = CopiesIn(HeartbeatSentLog, log)

\* the first report issued for a token
FirstReport(t) == CHOOSE i \in Reports(t) : \A j \in Reports(t) : i <= j

\* the first report of every work item is the one its handler invocation
\* determines: the returned value, or the thrown error
OutcomeByHandler ==
  mode = "activity" =>
    \A k \in DOMAIN invocations :
      LET t == invocations[k].taskToken
          inv == invocations[k]
      IN Reports(t) # {} =>
           LET c == calls[FirstReport(t)]
           IN \/ /\ inv.status = "returned"
                 /\ c.cmd = "SendTaskSuccess"
                 /\ c.output = Stringify(inv.value)
              \/ /\ inv.status = "threw"
                 /\ c.cmd = "SendTaskFailure"
                 /\ IF SendTaskFailureThrows(inv.error)
                    THEN c.error = TypeErrorObj.name
                    ELSE c.error = inv.error.name /\ c.cause = inv.error.message

(***************************************************************************)
(* C12: a SendTaskHeartbeat that fails while the handler runs is logged    *)
(* and changes nothing else: its timer is not stopped and can tick again,  *)
(* the handler invocation goes on, no call is issued, and the report of    *)
(* every token is the one its handler invocation determines.               *)
(***************************************************************************)
C12_HeartbeatFailureIsHarmless ==
  /\ []OutcomeByHandler
  /\ [][\A i \in DOMAIN timers :
          (pc = "invoke" /\ HeartbeatFails(i)) =>
            /\ CopiesIn(HeartbeatErrorLog, log') = CopiesIn(HeartbeatErrorLog, log) + 1
            /\ ~timers'[i].stopped
            /\ timers'[i].sent = timers[i].sent
            /\ pc' = "invoke"
            /\ invocations' = invocations
            /\ calls' = calls
            /\ activity' = activity]_vars

\* the first heartbeat of the running work item failed and its timer has
\* ticked again: the second heartbeat is in flight, the handler still runs
C12_Witness ==
  /\ pc = "invoke"
  /\ heartbeat \in DOMAIN timers
  /\ timers[heartbeat].sent = 2
  /\ timers[heartbeat].busy
  /\ CopiesIn(HeartbeatErrorLog, log) = 1
  /\ CopiesIn(HeartbeatSentLog, log) = 0

\* this step calls clearIntervalAsync on timer i
Stops(i) == ~timers[i].stopped /\ timers'[i].stopped

(***************************************************************************)
(* C13: clearIntervalAsync in handlePollResponse completes only when no    *)
(* heartbeat send of the timer is in flight, no send of a stopped timer    *)
(* begins, and SendTaskSuccess is issued only once the timer of its token  *)
(* is stopped with no send in flight; stopping a timer that is idle, one   *)
(* that never ticked included, goes straight on to SendTaskSuccess.        *)
(***************************************************************************)
C13_StopWaitsForHeartbeat ==
  /\ [](\A i \in DOMAIN timers :
          (timers[i].stopped /\ timers[i].busy) =>
            /\ Successes(timers[i].taskToken) = {}
            /\ pc = "clear" /\ heartbeat = i)
  /\ [][\A i \in DOMAIN timers :
          /\ timers[i].stopped => timers'[i].sent = timers[i].sent
          /\ Stops(i) =>
               IF timers[i].busy
               THEN pc' = "clear" /\ ~Issues(ReportCmds)
               ELSE pc' = "success" /\ Issues({"SendTaskSuccess"})]_vars
  /\ [][Issues({"SendTaskSuccess"}) =>
          \A i \in DOMAIN timers' :
            timers'[i].taskToken = calls'[Len(calls')].taskToken =>
              timers'[i].stopped /\ ~timers'[i].busy]_vars

\* clearIntervalAsync was called while a heartbeat was in flight and waits
C13_Witness ==
  /\ pc = "clear"
  /\ heartbeat \in DOMAIN timers
  /\ timers[heartbeat].stopped
  /\ timers[heartbeat].busy
  /\ invocations[Len(invocations)].status = "returned"

(***************************************************************************)
(* C14: with the heartbeat option absent, null or zero,                    *)
(* runServiceFromActivity never creates a timer and never sends a          *)
(* SendTaskHeartbeat.                                                      *)
(***************************************************************************)
C14_NoIntervalNoHeartbeat ==
  (mode = "activity" /\ options.heartbeat = 0) =>
    /\ timers = <<>>
    /\ heartbeat = 0
    /\ HeartbeatCount = 0
    /\ CopiesIn(HeartbeatSentLog, log) = 0
    /\ CopiesIn(HeartbeatErrorLog, log) = 0

\* without an interval, one work item whose handler returned and one whose
\* handler threw have been dealt with
C14_Witness ==
  /\ mode = "activity"
  /\ options.heartbeat = 0
  /\ \E k, l \in DOMAIN invocations :
       /\ invocations[k].status = "returned"
       /\ invocations[l].status = "threw"
       /\ Reports(invocations[k].taskToken) # {}
       /\ Reports(invocations[l].taskToken) # {}

(***************************************************************************)
(* C15: sigTermReceived is false until the SIGTERM handler runs, only a    *)
(* run of that handler sets it, and once true it stays true.               *)
(***************************************************************************)
C15_FlagNeverReset ==
  /\ [](~sigtermHandler => ~sigTermReceived)
  /\ [][(~sigtermHandler /\ sigtermHandler') => ~sigTermReceived']_vars
  /\ [][(~sigTermReceived /\ sigTermReceived') =>
          sigtermHandler /\ SigtermCount' = SigtermCount + 1]_vars
  /\ [][sigTermReceived => sigTermReceived']_vars

\* the flag was set and the service function ran on to its end with it
C15_Witness ==
  /\ sigTermReceived
  /\ pc = "resolved"
  /\ counter >= 2

(***************************************************************************)
(* C16: in queue mode a DeleteMessage is issued for a message only after   *)
(* its handler invocation returned, with the receipt handle of that        *)
(* message; a message whose handler threw gets no DeleteMessage.           *)
(***************************************************************************)
C16_DeleteAfterSuccess ==
  mode = "sqs" =>
    \A j \in DOMAIN jobs :
      /\ jobs[j].deleted.issued =>
           /\ jobs[j].inv \in DOMAIN invocations
           /\ invocations[jobs[j].inv].status = "returned"
           /\ jobs[j].deleted.ReceiptHandle = jobs[j].receipt
      /\ (jobs[j].inv \in DOMAIN invocations /\ invocations[jobs[j].inv].status = "threw") =>
           ~jobs[j].deleted.issued

\* this step is the handler invocation of job j throwing
SqsHandlerThrows(j) ==
  /\ jobs[j].inv \in DOMAIN invocations
  /\ invocations[jobs[j].inv].status = "pending"
  /\ invocations'[jobs[j].inv].status = "threw"

TaskFailedLog == LogEntry("error", "Task failed. trying again")

(***************************************************************************)
(* C17: in queue mode a handler invocation that throws is caught and       *)
(* logged by the iteration: it leaves no rejection unhandled, the service  *)
(* function does not reject, the process does not end, and the other       *)
(* messages of the batch are not affected.                                 *)
(***************************************************************************)
C17_HandlerErrorIsContained ==
  [][\A j \in DOMAIN jobs :
       (mode = "sqs" /\ SqsHandlerThrows(j)) =>
         /\ CopiesIn(TaskFailedLog, log') = CopiesIn(TaskFailedLog, log) + 1
         /\ unhandled' = unhandled
         /\ pc' \notin {"rejected", "crashed"}
         /\ \A k \in DOMAIN jobs \ {j} : jobs'[k] = jobs[k]]_vars

(***************************************************************************)
(* C18: in queue mode a ReceiveMessage that fails is logged and ends only  *)
(* its iteration: no handler is invoked and no DeleteMessage is issued for *)
(* it, runServiceFromSQS does not reject, and with runForever true and no  *)
(* SIGTERM received the next ReceiveMessage is issued.                     *)
(***************************************************************************)
C18_ReceiveErrorEndsIteration ==
  [][(mode = "sqs" /\ AwaitedCallFails({"ReceiveMessage"})) =>
       /\ CopiesIn(TaskFailedLog, log') = CopiesIn(TaskFailedLog, log) + 1
       /\ invocations' = invocations
       /\ jobs' = jobs
       /\ unhandled' = unhandled
       /\ pc' # "rejected"
       /\ IF runForever /\ ~sigTermReceived
          THEN pc' = "receive" /\ Issues({"ReceiveMessage"})
          ELSE pc' = "resolved" /\ calls' = Settle(calls, awaiting, "error")]_vars

\* a ReceiveMessage failed and the next one is pending
C18_Witness ==
  /\ mode = "sqs"
  /\ pc = "receive"
  /\ awaiting >= 2
  /\ calls[awaiting - 1].cmd = "ReceiveMessage"
  /\ calls[awaiting - 1].result = "error"
  /\ calls[awaiting].cmd = "ReceiveMessage"
  /\ calls[awaiting].result = "pending"

(***************************************************************************)
(* C19: runTask, once the installation has succeeded, invokes the handler  *)
(* exactly once, with options.lambdaInput, and resolves with exactly the   *)
(* value the handler returned; it issues no poll, heartbeat or report.     *)
(***************************************************************************)
C19_TaskReturnsHandlerOutput ==
  mode = "task" =>
    /\ calls = <<>>
    /\ timers = <<>>
    /\ jobs = <<>>
    /\ Len(invocations) <= 1
    /\ pc \in {"invoke", "resolved"} => Len(invocations) = 1
    /\ \A k \in DOMAIN invocations : invocations[k].event = options.lambdaInput
    /\ pc = "invoke" => invocations[1].status = "pending"
    /\ pc = "resolved" =>
         /\ invocations[1].status = "returned"
         /\ taskResult = [NoResult EXCEPT !.value = invocations[1].value]
    /\ (pc = "resolved" /\ invocations[1].value = invocations[1].event) =>
         taskResult.value = options.lambdaInput

\* runTask has resolved with the output of a handler that returned its input
C19_Witness ==
  /\ mode = "task"
  /\ pc = "resolved"
  /\ options.lambdaInput = HiBye
  /\ taskResult.value = HiBye

\* this step is runTask rejecting
TaskRejects == mode = "task" /\ pc # "rejected" /\ pc' = "rejected"

(***************************************************************************)
(* C20: when the handler throws, or the installation fails, runTask logs   *)
(* the error and rejects with that same error; it never resolves then.     *)
(***************************************************************************)
C20_TaskRejectsWithSameError ==
  /\ [](mode = "task" =>
          \A k \in DOMAIN invocations : invocations[k].status = "threw" => pc # "resolved")
  /\ [][(mode = "task" /\ pc = "install" /\ pc' \notin {"install", "killed"}) =>
          pc' \in {"invoke", "rejected"}]_vars
  /\ [][(mode = "task" /\ pc = "invoke" /\ invocations'[1].status = "threw") => TaskRejects]_vars
  /\ [][TaskRejects =>
          LET e == IF invocations' = <<>> THEN taskResult'.error ELSE invocations'[1].error
          IN /\ e # NoError
             /\ taskResult' = [NoResult EXCEPT !.error = e]
             /\ CopiesIn(ErrorEntry("task failed with an error", e), log')
                  = CopiesIn(ErrorEntry("task failed with an error", e), log) + 1]_vars

(***************************************************************************)
(* C28: every SendTaskFailure issued for a work item whose handler threw   *)
(* carries a defined error name and a defined message, whatever the thrown *)
(* value was (an Error, a string, null).                                   *)
(***************************************************************************)
C28_FailureCarriesNameAndMessage ==
  \A i \in DOMAIN calls :
    (/\ calls[i].cmd = "SendTaskFailure"
     /\ \E k \in DOMAIN invocations :
          /\ invocations[k].taskToken = calls[i].taskToken
          /\ invocations[k].status = "threw")
    => /\ calls[i].error # Undefined
       /\ calls[i].cause # Undefined

(***************************************************************************)
(* C30: runServiceFromActivity called with runForever = false performs     *)
(* exactly one poll iteration after the installation and then resolves,    *)
(* SIGTERM or not; with runForever unset the flag is true and the service  *)
(* polls until SIGTERM; only an explicit false makes the flag false.       *)
(***************************************************************************)
Polls == {i \in DOMAIN calls : calls[i].cmd = "GetActivityTask"}
Settled == pc \in {"resolved", "rejected"}

C30_RunForeverIsThreeState ==
  /\ \A option \in RunForeverOptions :
       RunForeverOf(option) = (option # "false")
  /\ (mode = "activity" /\ sigtermHandler /\ ~runForever)
       => /\ Cardinality(Polls) = 1
          /\ Settled => pc = "resolved"
  /\ (mode = "activity" /\ sigtermHandler /\ runForever /\ Settled)
       => pc = "resolved" /\ sigTermReceived

(***************************************************************************)
(* Vocabulary of the start-up properties.                                  *)
(***************************************************************************)
\* the process has ended
Exited == exitCode # Running

\* the handler was invoked and threw
HandlerThrew == \E k \in DOMAIN invocations : invocations[k].status = "threw"

\* a poll of either service was issued
Polled == \E i \in DOMAIN calls : calls[i].cmd \in PollCmds

\* the command line selects no mode, or lacks the lambda-arn every mode needs
NoModeGiven ==
  ~JTruthy(argv.activityArn) /\ ~JTruthy(argv.sqsUrl) /\ cliInput = NoText
MissingConfiguration ==
  entry = "cli" /\ (NoModeGiven \/ ~IsRequiredString(argv.lambdaArn))

(***************************************************************************)
(* C21: when the command runs in single-task mode and the handler throws,  *)
(* the error is printed and the process ends with a non-zero exit code.    *)
(***************************************************************************)
C21_FailedTaskExitsNonZero ==
  (entry = "cli" /\ mode = "task" /\ HandlerThrew /\ Exited)
    => /\ stderr # <<>>
       /\ exitCode # 0

(***************************************************************************)
(* C22: when required configuration is missing (no mode selected, or a     *)
(* mode selected without lambda-arn) the process never polls and ends with *)
(* a non-zero exit code.                                                   *)
(***************************************************************************)
C22_MissingConfigurationExitsNonZero ==
  MissingConfiguration
    => /\ ~Polled
       /\ Exited => exitCode # 0

(***************************************************************************)
(* C23: a service function called with a missing or non-string lambdaArn,  *)
(* activityArn or sqsUrl, taskDirectory or workDirectory, or in activity   *)
(* mode with a truthy heartbeat that is no integer, rejects with an        *)
(* assertion error before any effect: no Lambda lookup, no download, no    *)
(* SIGTERM handler, no poll.                                               *)
(***************************************************************************)
BadString(v) == v.t # "string" \/ v.s = ""

InvalidServiceOptions ==
  /\ mode \in {"activity", "sqs"}
  /\ \/ BadString(argv.lambdaArn)
     \/ BadString(IF mode = "activity" THEN argv.activityArn ELSE argv.sqsUrl)
     \/ BadString(argv.taskDirectory)
     \/ BadString(argv.workDirectory)
     \/ /\ mode = "activity"
        /\ argv.heartbeat.t \notin {"undefined", "null"}
        /\ ~(argv.heartbeat.t = "number" /\ argv.heartbeat.m = <<>>)

C23_InvalidOptionsRejectEarly ==
  InvalidServiceOptions
    => /\ calls = <<>>
       /\ downloads = <<>>
       /\ ~sigtermHandler
       /\ pc \in {"start", "rejected"}
       /\ pc = "rejected" => taskResult.error.name = "AssertionError"

C23_Witness ==
  /\ InvalidServiceOptions
  /\ pc = "rejected"
  /\ argv.given
  /\ ~BadString(argv.lambdaArn)
  /\ BadString(argv.workDirectory)

(***************************************************************************)
(* C24: a download attempt that fails with ETIMEDOUT is retried, and when  *)
(* a later attempt succeeds the file, the handler the installation returns *)
(* and the output of its invocation are those of a download that succeeded *)
(* at the first attempt.                                                   *)
(***************************************************************************)
DoneDownloads == {k \in DOMAIN downloads : downloads[k].status = "done"}

\* the handler module and the adapter directory as a download of the code
\* that succeeds at once leaves them: the package extracted into the task
\* directory, next to the packages that were installed before
DirectDisk ==
  Extracted(File(lambdaFn.package, {}), Template(TaskDir))
  @@ [p \in DOMAIN disk \cap DOMAIN InstalledPackage |-> disk[p]]

DirectHandler ==
  LET file == RequireResolve(Template(TaskDir) \o "/" \o ModuleFileName(lambdaFn.Handler),
                             DirectDisk)
  IN [returned |-> file # Undefined,
      callable |-> file # Undefined
                   /\ ModuleFunctionName(lambdaFn.Handler) \in DirectDisk[file].exports,
      cmaDir |-> AdapterPath(TaskDir, LayersDir, DirectDisk)]

C24_RetriedDownloadEqualsDirect ==
  /\ \A k \in DoneDownloads :
       disk[Resolve(downloads[k].dest)] = File(Served(downloads[k].url), {})
  /\ handler.returned => handler = DirectHandler
  /\ (handler.returned /\ lambdaFn.Handler = "index.handler") => handler.callable
  /\ (mode = "task" /\ pc = "resolved")
       => /\ invocations[Len(invocations)].event = argv.lambdaInput
          /\ taskResult.value = invocations[Len(invocations)].value

C24_Witness ==
  /\ mode = "task"
  /\ pc = "resolved"
  /\ \E k \in DoneDownloads : downloads[k].retried /\ downloads[k].url = FunctionUrl
  /\ handler.callable
  /\ taskResult.value = HiBye

(***************************************************************************)
(* C25: a download attempt that fails with an error other than ETIMEDOUT   *)
(* aborts downloadFile at once: the call fails with that error in the same *)
(* step, and so does the installation; no attempt follows, and only        *)
(* timeouts ever lead to another attempt.                                  *)
(***************************************************************************)
\* in this step an attempt of download k failed
AttemptFailed(k) ==
  /\ downloads[k].status = "pending"
  /\ downloads'[k].attempts = downloads[k].attempts + 1

\* in this step the installation fails with err
InstallFailsWith(err) ==
  Installing => (pc' = "rejected" /\ taskResult'.error = err)

C25_OtherErrorsAbortAtOnce ==
  /\ [](\A k \in DOMAIN downloads :
          (downloads[k].status = "pending" /\ downloads[k].attempts > 0)
            => downloads[k].error.code = "ETIMEDOUT")
  /\ [][\A k \in DOMAIN downloads :
          /\ (AttemptFailed(k) /\ downloads'[k].error.code # "ETIMEDOUT")
               => /\ downloads'[k].status = "failed"
                  /\ InstallFailsWith(downloads'[k].error)
          /\ downloads[k].status = "failed" => downloads'[k] = downloads[k]]_vars

C25_Witness ==
  \E k \in DOMAIN downloads :
    /\ downloads[k].status = "failed"
    /\ downloads[k].error = SystemError("ECONNRESET")
    /\ downloads[k].attempts = 1
    /\ pc = "rejected"
    /\ taskResult.error = SystemError("ECONNRESET")

(***************************************************************************)
(* C26: the retry is bounded: a download makes Retries + 1 attempts at     *)
(* most, and when the last of them times out too downloadFile fails with   *)
(* the timeout and the installation ends with that error.                  *)
(***************************************************************************)
C26_RetryIsBounded ==
  /\ [](\A k \in DOMAIN downloads :
          /\ downloads[k].attempts <= Retries + 1
          /\ downloads[k].status = "pending" => downloads[k].attempts <= Retries
          /\ (downloads[k].status = "failed" /\ downloads[k].error.code = "ETIMEDOUT")
               => downloads[k].attempts = Retries + 1)
  /\ [][\A k \in DOMAIN downloads :
          (AttemptFailed(k) /\ downloads[k].attempts = Retries)
            => /\ downloads'[k].status = "failed"
               /\ InstallFailsWith(downloads'[k].error)]_vars

C26_Witness ==
  \E k \in DOMAIN downloads :
    /\ downloads[k].status = "failed"
    /\ downloads[k].error = SystemError("ETIMEDOUT")
    /\ downloads[k].attempts = Retries + 1
    /\ pc = "rejected"
    /\ taskResult.error = SystemError("ETIMEDOUT")

(***************************************************************************)
(* C27: installLambdaFunction fails when the entry point of the Handler    *)
(* setting cannot be located in the extracted tree (the module file is     *)
(* missing, or the module does not export the named function): what it     *)
(* returns as the handler is always callable.                              *)
(***************************************************************************)
\* the entry point of the Handler setting is in the extracted tree
EntryPointLocated ==
  LET file == RequireResolve(Template(TaskDir) \o "/" \o ModuleFileName(lambdaFn.Handler), disk)
  IN /\ file # Undefined
     /\ ModuleFunctionName(lambdaFn.Handler) \in disk[file].exports

C27_MissingEntryPointFails ==
  handler.returned => (EntryPointLocated /\ handler.callable)

(***************************************************************************)
(* C29: after installation CUMULUS_MESSAGE_ADAPTER_DIR is                  *)
(* <taskDirectory>/cumulus-message-adapter when the extracted function     *)
(* package has that path, and the layers directory otherwise; it is set    *)
(* after the extraction and before the handler module is loaded.           *)
(***************************************************************************)
\* the function package has the message adapter
PackageHasAdapter ==
  \E k \in DOMAIN lambdaFn.package : lambdaFn.package[k].name = "cumulus-message-adapter"

\* every archive has been extracted
ExtractionDone ==
  /\ unzips # <<>>
  /\ \A k \in DOMAIN unzips : unzips[k].status = "done"

C29_AdapterDirFollowsPackage ==
  /\ env # Undefined =>
       /\ ExtractionDone
       /\ env = IF PackageHasAdapter
                THEN argv.taskDirectory.s \o "/cumulus-message-adapter"
                ELSE LayersDir
  /\ handler.returned => (env # Undefined /\ handler.cmaDir = env)

(***************************************************************************)
(* C31: the handler is invoked exactly once per work item obtained         *)
(* (activity mode) and exactly once per received message with a body       *)
(* (queue mode); the invocation is never repeated after it throws, and     *)
(* no work item is invoked in more than one iteration.                     *)
(***************************************************************************)
\* the invocations made for the work item with this token
InvocationsOf(token) == {i \in DOMAIN invocations : invocations[i].taskToken = token}

\* the poll returned a work item to the loop
Obtained(call) ==
  /\ call.cmd = "GetActivityTask"
  /\ call.result = "ok"
  /\ IsWork([defined |-> TRUE, taskToken |-> call.taskToken, input |-> call.input])
  /\ Parse(call.input).ok

\* every invocation was made for a work item the loop obtained, once
OncePerWorkItem ==
  mode = "activity" =>
    LET obtained == {k \in DOMAIN calls : Obtained(calls[k])}
    IN /\ \A k \in obtained : Cardinality(InvocationsOf(calls[k].taskToken)) = 1
       /\ \A i \in DOMAIN invocations :
            \E k \in obtained : calls[k].taskToken = invocations[i].taskToken
       /\ \A k, l \in obtained : calls[k].taskToken = calls[l].taskToken => k = l

HasBody(job) == job.body # NoText
HasJsonBody(job) == job.body # NoText /\ Parse(job.body).ok

\* the jobs of the messages that count have one invocation each, the other
\* jobs none, and no invocation belongs to two jobs or to none
OncePerMessage(Counts(_)) ==
  mode = "sqs" =>
    /\ \A j \in DOMAIN jobs : (jobs[j].inv \in DOMAIN invocations) = Counts(jobs[j])
    /\ \A j, l \in DOMAIN jobs : (jobs[j].inv = jobs[l].inv /\ jobs[j].inv # 0) => j = l
    /\ \A i \in DOMAIN invocations : \E j \in DOMAIN jobs : jobs[j].inv = i

\* the claim as stated: every message with a body
C31_InvokedOncePerItem ==
  /\ OncePerWorkItem
  /\ OncePerMessage(HasBody)

\* the claim as amended: every message whose body is a JSON text
C31_InvokedOncePerParsedItem ==
  /\ OncePerWorkItem
  /\ OncePerMessage(HasJsonBody)

\* a batch with a message that does not parse and one whose handler threw,
\* and the loop has gone on to a later iteration
C31_Witness ==
  /\ mode = "sqs"
  /\ counter > 1
  /\ \E j \in DOMAIN jobs : jobs[j].body = BadJson /\ jobs[j].inv = 0
  /\ \E j \in DOMAIN jobs :
       jobs[j].inv \in DOMAIN invocations /\ invocations[jobs[j].inv].status = "threw"

(***************************************************************************)
(* C32: with a heartbeat interval i configured, the number of              *)
(* SendTaskHeartbeat calls made during a handler invocation that lasts T   *)
(* is floor(T / i), within a tolerance of one tick.                        *)
(***************************************************************************)
\* the invocations that have ended, with a timer
Timed_Ended == {k \in DOMAIN invocations : invocations[k].finish # Untimed}

Abs(x) == IF x < 0 THEN -x ELSE x

\* the heartbeats of invocation k are floor(T / i) give or take one
BeatsAsExpected(k) ==
  LET T == invocations[k].finish - invocations[k].start
  IN Abs(invocations[k].beats - (T \div Interval)) <= 1

Unparsed(call) ==
  /\ call.cmd = "GetActivityTask"
  /\ call.result = "ok"
  /\ Truthy(call.taskToken)
  /\ call.input # NoText
  /\ ~Parse(call.input).ok

UnparsedPolls == {k \in DOMAIN calls : Unparsed(calls[k])}

TaskFailedEntries(logNow) == CopiesIn(LogEntry("error", "Task failed. trying again"), logNow)

C33_UnparsedInputEndsIteration ==
  /\ [](\A k \in UnparsedPolls :
          /\ \A i \in DOMAIN invocations : invocations[i].taskToken # calls[k].taskToken
          /\ \A i \in DOMAIN timers : timers[i].taskToken # calls[k].taskToken
          /\ \A j \in DOMAIN calls :
               calls[j].cmd \in {"SendTaskSuccess", "SendTaskFailure"}
                 => calls[j].taskToken # calls[k].taskToken)
  /\ [][(pc = "poll" /\ Unparsed(calls'[awaiting])) =>
          /\ TaskFailedEntries(log') = TaskFailedEntries(log) + 1
          /\ invocations' = invocations
          /\ timers' = timers
          /\ counter' = counter + 1
          /\ IF runForever /\ ~sigTermReceived
             THEN /\ pc' = "poll"
                  /\ Len(calls') = Len(calls) + 1
                  /\ calls'[Len(calls')].cmd = "GetActivityTask"
             ELSE pc' = "resolved"]_vars

\* the loop has gone round after a poll whose input did not parse
C33_Witness ==
  /\ mode = "activity"
  /\ pc = "poll"
  /\ UnparsedPolls # {}

(***************************************************************************)
(* C34: in queue mode an iteration waits for every message of the batch    *)
(* to be fully processed (handler settled and, on success, DeleteMessage   *)
(* settled) before the loop condition is evaluated: no ReceiveMessage is   *)
(* pending, and runServiceFromSQS has not resolved, while a handler        *)
(* invocation or a DeleteMessage started by the loop is in flight.         *)
(***************************************************************************)
\* the messages whose processing has not ended
JobsInFlight == {j \in DOMAIN jobs : jobs[j].status \in {"invoking", "deleting"}}

C34_IterationWaitsForBatch ==
  (mode = "sqs" /\ pc \in {"receive", "resolved"}) => JobsInFlight = {}

(***************************************************************************)
(* C35: in both service modes the function is installed exactly once,      *)
(* before the loop: no poll is issued until installLambdaFunction has      *)
(* succeeded, the same handler is used for every iteration, and when the   *)
(* installation fails the service function rejects without any poll.       *)
(***************************************************************************)
\* the polls issued so far
PollsIssued == {k \in DOMAIN calls : calls[k].cmd \in {"GetActivityTask", "ReceiveMessage"}}

C35_InstalledOnceBeforeLoop ==
  /\ [](mode # "task" =>
          /\ PollsIssued # {} => handler.returned
          /\ invocations # <<>> => handler.returned
          /\ ~handler.returned => pc \in {"install", "rejected", "killed"})
  /\ [][mode # "task" =>
          /\ pc # "install" => pc' # "install"
          /\ handler.returned => handler' = handler
          /\ (pc = "install" /\ pc' = "rejected") => (~handler'.returned /\ PollsIssued' = {})]_vars

\* a second iteration polls with the handler of the first
C35_Witness ==
  /\ mode # "task"
  /\ handler.returned
  /\ counter = 2
  /\ Cardinality(PollsIssued) = 2
  /\ invocations # <<>>

\* the installation failed and the service function rejected
C35_InstallFailed ==
  /\ mode # "task"
  /\ pc = "rejected"
  /\ ~handler.returned

(***************************************************************************)
(* C36: runServiceFromSQS installs the function into the directory given   *)
(* as options.taskDirectory: the task directory passed to                  *)
(* installLambdaFunction equals the validated options.taskDirectory, as it *)
(* does in runTask and runServiceFromActivity.                             *)
(***************************************************************************)
\* the directory the function package is extracted into
InstalledInto == unzips[Len(unzips)].dir

C36_InstalledIntoTaskDirectory ==
  unzips # <<>> => InstalledInto = argv.taskDirectory.s

(***************************************************************************)
(* C37: runTask called with options that lack a string lambdaArn rejects   *)
(* with an assertion error ('options.lambdaArn string is required') before *)
(* any log-sender computation, Lambda lookup or download is attempted.     *)
(***************************************************************************)
\* runTask was called and options.lambdaArn is no string
TaskWithoutLambdaArn ==
  /\ mode = "task"
  /\ pc # "start"
  /\ typeof(argv.lambdaArn) # "string"

\* the options of runTask are valid but for lambdaArn
OtherTaskOptionsValid ==
  /\ argv.given
  /\ typeof(argv.lambdaInput) = "object"
  /\ IsRequiredString(argv.taskDirectory)
  /\ IsRequiredString(argv.workDirectory)
  /\ ~JTruthy(argv.layersDirectory) \/ typeof(argv.layersDirectory) = "string"

C37_TaskWithoutLambdaArnIsAsserted ==
  TaskWithoutLambdaArn
    => /\ taskResult.error.name = "AssertionError"
       /\ OtherTaskOptionsValid
            => taskResult.error = AssertionError("options.lambdaArn string is required")
       /\ calls = <<>>
       /\ downloads = <<>>

(***************************************************************************)
(* C38: the command starts exactly one mode per process, chosen by         *)
(* precedence activity-arn, then sqs-url, then lambda-input: when several  *)
(* of these options are given only the first in that order runs, and when  *)
(* none is given no mode runs and the process exits with code 1.           *)
(***************************************************************************)
\* the first of the three options that is given
Selected ==
  IF JTruthy(argv.activityArn) THEN "activity"
  ELSE IF JTruthy(argv.sqsUrl) THEN "sqs"
  ELSE IF cliInput # NoText THEN "task"
  ELSE Undefined

\* the script is past its dispatch
Dispatched == entry = "cli" /\ pc # "start"

\* none of the three functions was called
NoModeRuns ==
  /\ mode = Undefined
  /\ calls = <<>>
  /\ invocations = <<>>

InputUnparsed == Selected = "task" /\ ~Parse(cliInput).ok

====
